---------------------------- MODULE Spec2Model ----------------------------
(***************************************************************************)
(* PyRs: the bytecode compiler (pyrs_bytecode.rs) and the stack virtual    *)
(* machine (pyrs_vm.rs) over the tagged value model (pyrs_obj.rs).         *)
(*                                                                         *)
(* A run takes one input (a parsed program, or a hand-written instruction  *)
(* queue as the tests build them), compiles it with PyBytecode::from_expr  *)
(* and executes the queue one instruction per step.                        *)
(*                                                                         *)
(* Text (String) values are sequences of one-character strings, so that    *)
(* Obj::from_atom can be computed on them.  Names of variables are plain   *)
(* strings.  A Float is an exact fraction <<numerator, denominator>> in    *)
(* lowest terms with a positive denominator.                               *)
(***************************************************************************)
EXTENDS Integers, Sequences, FiniteSets, TLC

(***************************************************************************)
(* Bounds of the model.                                                    *)
(***************************************************************************)
MaxBody == 2      \* statements in the body of an arm or of a loop
MaxElif == 2      \* elif arms of a chain
MaxIter == 3      \* iterations of a loop
MaxPrefix == 1    \* statements compiled in front of the construct
MaxInt == 1       \* magnitude of the Int arguments of a call
MaxArgs == 1      \* arguments of a function written by hand
MaxVals == 2      \* values the body of such a function leaves on its stack
MaxOps == 3       \* operators of an arithmetic expression
MaxCalls == 3     \* calls of add_const and add_name on one CompileCtx

-----------------------------------------------------------------------------
(***************************************************************************)
(* Sequence helpers.                                                       *)
(***************************************************************************)
Last(s) == s[Len(s)]

Front(s) == SubSeq(s, 1, Len(s) - 1)

Reverse(s) == [i \in 1..Len(s) |-> s[Len(s) + 1 - i]]

Repeat(x, n) == [i \in 1..n |-> x]

RECURSIVE Flatten(_)
Flatten(ss) == IF ss = <<>> THEN <<>> ELSE Head(ss) \o Flatten(Tail(ss))

Abs(n) == IF n < 0 THEN -n ELSE n

RECURSIVE Gcd(_, _)
Gcd(a, b) == IF b = 0 THEN a ELSE Gcd(b, a % b)

-----------------------------------------------------------------------------
(***************************************************************************)
(* The value model: enum Obj.                                              *)
(***************************************************************************)
NullObj == [k |-> "Null", v |-> 0]

NoneObj == [k |-> "None", v |-> 0]

BoolObj(b) == [k |-> "Bool", v |-> b]

IntObj(n) == [k |-> "Int", v |-> n]

\* A finite f64 is kept as the fraction n/d it stands for, in lowest terms
\* with d > 0 (rounding is not modelled); the f64 NaN is the pair <<0, 0>>,
\* which every operation on fractions below propagates (d = 0).
FloatObj(n, d) ==
    LET g == Gcd(Abs(n), Abs(d))
        s == IF d < 0 THEN -1 ELSE 1
    IN  IF d = 0 THEN [k |-> "Float", v |-> <<0, 0>>]
        ELSE [k |-> "Float", v |-> <<(s * n) \div g, (s * d) \div g>>]

NaN == FloatObj(0, 0)

StrObj(s) == [k |-> "Str", v |-> s]

\* A List holds its items behind a Mutex shared by every reference to the
\* list; id numbers that Mutex.  A list just made has the number 0 until
\* it enters the machine (push), which numbers it.
ListObj(items) == [k |-> "List", v |-> items, id |-> 0]

\* Not a value: Obj::add locks the Mutex of a list it already holds, and
\* that lock() does not return.
Relock == [k |-> "Relock", v |-> 0]

TupleObj(items) == [k |-> "Tuple", v |-> items]

SetObj(items) == [k |-> "Set", v |-> items]

IterObj(items, index) == [k |-> "Iter", v |-> [items |-> items, index |-> index]]

CodeObj(code_obj) == [k |-> "Code", v |-> code_obj]

\* PyException as a value; only the error kind is kept, not the message.
ExceptObj(error) == [k |-> "Except", v |-> error]

Digits == <<"0", "1", "2", "3", "4", "5", "6", "7", "8", "9">>

\* The characters texts are made of, in character order.
Chars == <<" ", ".">> \o Digits \o <<"a", "b", "c", "d", "e", "f", "n", "r", "x">>

CharRank(c) == CHOOSE i \in 1..Len(Chars) : Chars[i] = c

IsDigit(c) == \E i \in 1..Len(Digits) : Digits[i] = c

DigitVal(c) == (CHOOSE i \in 1..Len(Digits) : Digits[i] = c) - 1

RECURSIVE DigitsVal(_)
DigitsVal(s) == IF s = <<>> THEN 0 ELSE 10 * DigitsVal(Front(s)) + DigitVal(Last(s))

RECURSIVE Pow10(_)
Pow10(n) == IF n = 0 THEN 1 ELSE 10 * Pow10(n - 1)

AllDigits(s) == s # <<>> /\ \A i \in 1..Len(s) : IsDigit(s[i])

\* digits "." digits, the decimal texts f64's parser accepts over Chars.
IsDecimal(s) ==
    \E p \in 1..Len(s) :
        /\ s[p] = "."
        /\ \A i \in (1..Len(s)) \ {p} : IsDigit(s[i])
        /\ Len(s) > 1

DecimalVal(s) ==
    LET p == CHOOSE i \in 1..Len(s) : s[i] = "."
        whole == SubSeq(s, 1, p - 1)
        frac == SubSeq(s, p + 1, Len(s))
    IN  FloatObj(DigitsVal(whole) * Pow10(Len(frac)) + DigitsVal(frac), Pow10(Len(frac)))

\* Obj::from_atom: an integer if the text parses as one, else a float if it
\* parses as one ("nan" does, and so does a quoted text, whose quotes the
\* lexer has removed), else the text itself.  No text of the model's
\* programs has an exponent.
from_atom(c) ==
    IF AllDigits(c) THEN IntObj(DigitsVal(c))
    ELSE IF IsDecimal(c) THEN DecimalVal(c)
    ELSE IF c = <<"n", "a", "n">> THEN NaN
    ELSE StrObj(c)

RECURSIVE IntText(_)
IntText(n) ==
    IF n < 0 THEN <<"-">> \o IntText(-n)
    ELSE IF n < 10 THEN <<Digits[n + 1]>>
    ELSE IntText(n \div 10) \o <<Digits[(n % 10) + 1]>>

IsNumKind(o) == o.k \in {"Bool", "Int", "Float"}

\* The promotion Bool -> Int -> Float used by PartialEq and PartialOrd,
\* as a fraction <<n, d>>.
NumOf(o) ==
    CASE o.k = "Bool" -> <<IF o.v THEN 1 ELSE 0, 1>>
      [] o.k = "Int" -> <<o.v, 1>>
      [] o.k = "Float" -> o.v

RECURSIVE StrLess(_, _)
StrLess(a, b) ==
    IF b = <<>> THEN FALSE
    ELSE IF a = <<>> THEN TRUE
    ELSE IF Head(a) = Head(b) THEN StrLess(Tail(a), Tail(b))
    ELSE CharRank(Head(a)) < CharRank(Head(b))

\* impl PartialEq for Obj without the promotion of a Bool to a Float.
ObjEqNoBoolFloat(a, b) ==
    CASE a.k = "Null" /\ b.k = "Null" -> TRUE
      [] a.k = "None" /\ b.k = "None" -> TRUE
      [] <<a.k, b.k>> \in {<<"Bool", "Float">>, <<"Float", "Bool">>} -> FALSE
      [] IsNumKind(a) -> IsNumKind(b) /\ NumOf(a) = NumOf(b) /\ NumOf(a)[2] # 0
      [] a.k = "Str" /\ b.k = "Str" -> a.v = b.v
      [] OTHER -> FALSE

\* impl PartialEq for Obj
ObjEq(a, b) ==
    CASE a.k = "Null" /\ b.k = "Null" -> TRUE
      [] a.k = "None" /\ b.k = "None" -> TRUE
      [] IsNumKind(a) -> IsNumKind(b) /\ NumOf(a) = NumOf(b) /\ NumOf(a)[2] # 0
      [] a.k = "Str" /\ b.k = "Str" -> a.v = b.v
      [] OTHER -> FALSE

\* impl PartialOrd for Obj: lt
ObjLt(a, b) ==
    CASE IsNumKind(a) ->
            IsNumKind(b) /\ NumOf(a)[1] * NumOf(b)[2] < NumOf(b)[1] * NumOf(a)[2]
      [] a.k = "Str" /\ b.k = "Str" -> StrLess(a.v, b.v)
      [] OTHER -> FALSE

\* impl PartialOrd for Obj: gt, with a Str above every value of another kind.
ObjGtStrAbove(a, b) ==
    CASE IsNumKind(a) ->
            IsNumKind(b) /\ NumOf(a)[1] * NumOf(b)[2] > NumOf(b)[1] * NumOf(a)[2]
      [] a.k = "Str" /\ b.k = "Str" -> StrLess(b.v, a.v)
      [] a.k = "Str" -> TRUE
      [] OTHER -> FALSE

\* impl PartialOrd for Obj: gt
ObjGt(a, b) ==
    CASE IsNumKind(a) ->
            IsNumKind(b) /\ NumOf(a)[1] * NumOf(b)[2] > NumOf(b)[1] * NumOf(a)[2]
      [] a.k = "Str" /\ b.k = "Str" -> StrLess(b.v, a.v)
      [] OTHER -> FALSE

\* Obj::compare_op
ObjCompareOp(lhs, rhs, op) ==
    CASE op = "Eq" -> ObjEq(lhs, rhs)
      [] op = "Neq" -> ~ObjEq(lhs, rhs)
      [] op = "LessThan" -> ObjLt(lhs, rhs)
      [] op = "GreaterThan" -> ObjGt(lhs, rhs)
      [] op = "LessEq" -> ObjLt(lhs, rhs) \/ ObjEq(lhs, rhs)
      [] op = "GreaterEq" -> ObjGt(lhs, rhs) \/ ObjEq(lhs, rhs)
      [] OTHER -> FALSE

\* The kinds Obj::__bool__ answers for; it panics on every other kind.
HasBool(o) == o.k \in {"None", "Bool", "Float", "Int", "Str", "Tuple", "Set", "List"}

\* Obj::__bool__
ObjBool(o) ==
    CASE o.k = "None" -> FALSE
      [] o.k = "Bool" -> o.v
      [] o.k = "Float" -> o.v # <<0, 1>>
      [] o.k = "Int" -> o.v # 0
      [] o.k = "Str" -> o.v # <<>>
      [] o.k \in {"Tuple", "Set", "List"} -> Len(o.v) # 0

\* The kinds Obj::__int__ answers for; it panics on every other kind.
HasInt(o) == o.k \in {"Bool", "Int", "Float"}

\* Obj::__int__ (a Float is truncated toward zero, NaN gives 0)
ObjInt(o) ==
    CASE o.k = "Bool" -> IF o.v THEN 1 ELSE 0
      [] o.k = "Int" -> o.v
      [] o.k = "Float" ->
            IF o.v[2] = 0 THEN 0
            ELSE IF o.v[1] < 0 THEN -((-o.v[1]) \div o.v[2]) ELSE o.v[1] \div o.v[2]

\* Obj::__str__.  The text of a Float, a container, an iterator, a code
\* object or an exception is kept only as a mark of its kind: no name of a
\* program is such a text.
ObjStr(o) ==
    CASE o.k = "Str" -> o.v
      [] o.k = "Int" -> IntText(o.v)
      [] o.k = "Null" -> <<>>
      [] o.k = "None" -> <<"N", "o", "n", "e">>
      [] o.k = "Bool" -> IF o.v THEN <<"T", "r", "u", "e">> ELSE <<"F", "a", "l", "s", "e">>
      [] OTHER -> <<"<", o.k, ">">>

\* Obj::add
ObjAdd(lhs, rhs) ==
    CASE lhs.k = "Float" /\ rhs.k \in {"Float", "Int"} ->
            FloatObj(lhs.v[1] * NumOf(rhs)[2] + NumOf(rhs)[1] * lhs.v[2], lhs.v[2] * NumOf(rhs)[2])
      [] lhs.k = "Int" /\ rhs.k = "Int" -> IntObj(lhs.v + rhs.v)
      [] lhs.k = "Int" /\ rhs.k = "Float" ->
            FloatObj(lhs.v * rhs.v[2] + rhs.v[1], rhs.v[2])
      [] lhs.k = "Str" /\ rhs.k = "Str" -> StrObj(lhs.v \o rhs.v)
      [] lhs.k = "List" /\ rhs.k = "List" ->
            IF lhs.id = rhs.id THEN Relock ELSE ListObj(lhs.v \o rhs.v)
      [] OTHER -> ExceptObj("TypeError")

\* Obj::sub with the operands of the (Int, Float) arm exchanged.
ObjSubSwapped(lhs, rhs) ==
    CASE lhs.k = "Float" /\ rhs.k \in {"Float", "Int"} ->
            FloatObj(lhs.v[1] * NumOf(rhs)[2] - NumOf(rhs)[1] * lhs.v[2], lhs.v[2] * NumOf(rhs)[2])
      [] lhs.k = "Int" /\ rhs.k = "Int" -> IntObj(lhs.v - rhs.v)
      [] lhs.k = "Int" /\ rhs.k = "Float" ->
            FloatObj(rhs.v[1] - lhs.v * rhs.v[2], rhs.v[2])
      [] OTHER -> ExceptObj("TypeError")

\* Obj::sub
ObjSub(lhs, rhs) ==
    CASE lhs.k = "Float" /\ rhs.k \in {"Float", "Int"} ->
            FloatObj(lhs.v[1] * NumOf(rhs)[2] - NumOf(rhs)[1] * lhs.v[2], lhs.v[2] * NumOf(rhs)[2])
      [] lhs.k = "Int" /\ rhs.k = "Int" -> IntObj(lhs.v - rhs.v)
      [] lhs.k = "Int" /\ rhs.k = "Float" ->
            FloatObj(lhs.v * rhs.v[2] - rhs.v[1], rhs.v[2])
      [] OTHER -> ExceptObj("TypeError")

\* Obj::mul
ObjMul(lhs, rhs) ==
    CASE lhs.k = "Float" /\ rhs.k \in {"Float", "Int"} ->
            FloatObj(lhs.v[1] * NumOf(rhs)[1], lhs.v[2] * NumOf(rhs)[2])
      [] lhs.k = "Int" /\ rhs.k = "Int" -> IntObj(lhs.v * rhs.v)
      [] lhs.k = "Int" /\ rhs.k = "Float" -> FloatObj(lhs.v * rhs.v[1], rhs.v[2])
      [] lhs.k = "Str" /\ rhs.k = "Int" ->
            IF rhs.v >= 0 THEN StrObj(Flatten(Repeat(lhs.v, rhs.v))) ELSE ExceptObj("TypeError")
      [] OTHER -> ExceptObj("TypeError")

\* Obj::div with Int / Int left an Int, the quotient truncated.
ObjDivTruncating(lhs, rhs) ==
    CASE lhs.k = "Int" /\ rhs.k = "Int" ->
            IF rhs.v = 0 THEN ExceptObj("ZeroDivisionError") ELSE IntObj(lhs.v \div rhs.v)
      [] lhs.k \in {"Float", "Int"} /\ rhs.k \in {"Float", "Int"} ->
            IF NumOf(rhs) = <<0, 1>> THEN ExceptObj("ZeroDivisionError")
            ELSE FloatObj(NumOf(lhs)[1] * NumOf(rhs)[2], NumOf(lhs)[2] * NumOf(rhs)[1])
      [] OTHER -> ExceptObj("TypeError")

\* Obj::div
ObjDiv(lhs, rhs) ==
    CASE lhs.k \in {"Float", "Int"} /\ rhs.k \in {"Float", "Int"} ->
            IF NumOf(rhs) = <<0, 1>> THEN ExceptObj("ZeroDivisionError")
            ELSE FloatObj(NumOf(lhs)[1] * NumOf(rhs)[2], NumOf(lhs)[2] * NumOf(rhs)[1])
      [] OTHER -> ExceptObj("TypeError")

\* Obj::__neg__
ObjNeg(o) ==
    CASE o.k = "None" -> NoneObj
      [] o.k = "Bool" -> BoolObj(~o.v)
      [] o.k = "Float" -> FloatObj(-o.v[1], o.v[2])
      [] o.k = "Int" -> IntObj(-o.v)
      [] OTHER -> ExceptObj("NotImplementedError")

\* Obj::iter_py: the items an iterator over the value holds, or "none".
\* (A Dict has no literal in the compiler and is not a kind of this model.)
IsIterable(o) == o.k \in {"List", "Tuple", "Set", "Str"}

\* iter_py with the iterator starting behind the first item.
iter_pyFromSecond(o) ==
    IF o.k = "Str" THEN IterObj([i \in 1..Len(o.v) |-> StrObj(<<o.v[i]>>)], 1)
    ELSE IterObj(o.v, 1)

iter_py(o) ==
    IF o.k = "Str" THEN IterObj([i \in 1..Len(o.v) |-> StrObj(<<o.v[i]>>)], 0)
    ELSE IterObj(o.v, 0)

-----------------------------------------------------------------------------
(***************************************************************************)
(* Instructions: enum PyBytecode.  An instruction is its opcode and its    *)
(* operand (0 for an opcode that carries none).                            *)
(***************************************************************************)
Inst(op, arg) == [op |-> op, arg |-> arg]

NOP == Inst("NOP", 0)

PushNull == Inst("PushNull", 0)

LoadFast(i) == Inst("LoadFast", i)

StoreFast(i) == Inst("StoreFast", i)

GetIter == Inst("GetIter", 0)

ReturnValue == Inst("ReturnValue", 0)

MakeFunction == Inst("MakeFunction", 0)

LoadConst(obj) == Inst("LoadConst", obj)

LoadName(name) == Inst("LoadName", name)

StoreName(name) == Inst("StoreName", name)

PopJumpIfFalse(delta) == Inst("PopJumpIfFalse", delta)

PopJumpIfTrue(delta) == Inst("PopJumpIfTrue", delta)

JumpForward(delta) == Inst("JumpForward", delta)

JumpBackward(delta) == Inst("JumpBackward", delta)

ForIter(delta) == Inst("ForIter", delta)

CompareOp(op) == Inst("CompareOp", op)

CallFunction(argc) == Inst("CallFunction", argc)

CallInstrinsic1(ptr) == Inst("CallInstrinsic1", ptr)

\* A panic!() of the compiler: the compilation does not return.  It is kept
\* as a mark in the queue; a queue holding the mark is never executed.
CompilePanic == Inst("<panic>", 0)

Panicked(queue) == \E i \in 1..Len(queue) : queue[i] = CompilePanic

\* IntrinsicFunc::try_get
IsIntrinsic(name) == name \in {"print", "input", "range"}

try_get(name) ==
    CASE name = "print" -> "Print"
      [] name = "input" -> "Input"
      [] name = "range" -> "Range"

-----------------------------------------------------------------------------
(***************************************************************************)
(* The parser's output: enum Expression.                                   *)
(***************************************************************************)
ExprNone == [t |-> "None"]

Ident(name) == [t |-> "Ident", name |-> name]

Atom(text) == [t |-> "Atom", text |-> text]

Operation(op, args) == [t |-> "Operation", op |-> op, args |-> args]

Call(name, args) == [t |-> "Call", name |-> name, args |-> args]

Keyword(kw, conds, body) == [t |-> "Keyword", kw |-> kw, conds |-> conds, body |-> body]

IsKeyword(e, kws) == e.t = "Keyword" /\ e.kw \in kws

\* The tokens Lexer::from makes of the words of a line: a literal with its
\* text, an operator with its name.
TokAtom(text) == [t |-> "Atom", v |-> text]

TokOp(op) == [t |-> "Op", v |-> <<op>>]

Quote == "\""

\* Utils::trim_first_and_last
trim_first_and_last(value) == SubSeq(value, 2, Len(value) - 1)

\* Lexer::from on words that are literals: a word that starts with a digit
\* is an Atom of its text, a word that starts with a quote is an Atom of
\* the text between its first and last character.
Lexer(words) ==
    [i \in 1..Len(words) |->
        IF IsDigit(words[i][1]) THEN TokAtom(words[i])
        ELSE TokAtom(trim_first_and_last(words[i]))]

\* Op::infix_binding_power with the operators bound the other way round.
InfixBindingPowerRight(op) ==
    CASE op \in {"Plus", "Minus"} -> <<11, 10>>
      [] op \in {"Asterisk", "ForwardSlash"} -> <<21, 20>>

\* Op::infix_binding_power, in tenths.
infix_binding_power(op) ==
    CASE op \in {"Equals", "AddEquals", "SubEquals", "MulEquals", "DivEquals"} -> <<2, 3>>
      [] op \in {"Eq", "Neq", "LessEq", "LessThan", "GreaterEq", "GreaterThan"} -> <<5, 6>>
      [] op \in {"Plus", "Minus"} -> <<10, 11>>
      [] op \in {"Asterisk", "ForwardSlash"} -> <<20, 21>>

\* Lexer::parse_expression on a line of literals and infix operators: the
\* expression and the tokens left.  InfixLoop is its loop, with the left
\* operand made so far.
RECURSIVE parse_expression(_, _), InfixLoop(_, _, _)
parse_expression(tokens, min_bp) ==
    IF tokens = <<>> THEN [e |-> ExprNone, rest |-> <<>>]
    ELSE InfixLoop(Atom(Head(tokens).v), Tail(tokens), min_bp)

InfixLoop(lhs, tokens, min_bp) ==
    IF tokens = <<>> \/ Head(tokens).t # "Op" THEN [e |-> lhs, rest |-> tokens]
    ELSE LET op == Head(tokens).v[1]
             bp == infix_binding_power(op)
         IN  IF bp[1] < min_bp THEN [e |-> lhs, rest |-> tokens]
             ELSE LET rhs == parse_expression(Tail(tokens), bp[2])
                  IN  InfixLoop(Operation(op, <<lhs, rhs.e>>), rhs.rest, min_bp)

\* Expression::from_line
from_line(tokens) == parse_expression(tokens, 0).e

\* Expression::get_value_string is unimplemented!() off Ident and Atom.
HasValueString(e) == e.t \in {"Ident", "Atom"}

\* Expression::split_if_elif_else: every if/elif/else of the body opens a
\* part with THAT keyword, its conditions and an EMPTY body; the statements
\* that follow go into the open part; the statements in front of the first
\* keyword stay as they are.  st = [result, cur], cur = <<>> or <<part>>.
RECURSIVE SplitLoop(_, _)
SplitLoop(body, st) ==
    IF body = <<>> THEN st.result \o st.cur
    ELSE LET expr == Head(body)
         IN  IF IsKeyword(expr, {"If", "Elif", "Else"})
             THEN SplitLoop(Tail(body),
                            [result |-> st.result \o st.cur,
                             cur |-> <<Keyword(expr.kw, expr.conds, <<>>)>>])
             ELSE IF st.cur # <<>>
             THEN SplitLoop(Tail(body),
                            [result |-> st.result,
                             cur |-> <<Keyword(st.cur[1].kw, st.cur[1].conds,
                                               Append(st.cur[1].body, expr))>>])
             ELSE SplitLoop(Tail(body),
                            [result |-> Append(st.result, expr), cur |-> <<>>])

split_if_elif_else(body) == SplitLoop(body, [result |-> <<>>, cur |-> <<>>])

-----------------------------------------------------------------------------
(***************************************************************************)
(* The compiler: PyBytecode::from_expr appends the code of one expression  *)
(* to the queue it is given.                                               *)
(***************************************************************************)
ValueString(e) == IF e.t = "Ident" THEN e.name ELSE e.text

BinaryInst(op) ==
    CASE op \in {"Plus", "AddEquals"} -> Inst("BinaryAdd", 0)
      [] op \in {"Minus", "SubEquals"} -> Inst("BinarySubtract", 0)
      [] op \in {"Asterisk", "MulEquals"} -> Inst("BinaryMultiply", 0)
      [] op \in {"ForwardSlash", "DivEquals"} -> Inst("BinaryDivide", 0)

\* The instruction that follows the operands of an operator (the final
\* match of the Operation arm).
OperationInst(op) ==
    CASE op \in {"Plus", "Minus", "Asterisk", "ForwardSlash"} -> BinaryInst(op)
      [] op \in {"Eq", "Neq", "LessEq", "LessThan", "GreaterEq", "GreaterThan"} ->
            CompareOp(op)
      [] op = "Neg" -> Inst("UnaryNegative", 0)
      [] op = "Unpack" -> Inst("UnpackSequence", 0)
      [] OTHER -> Inst("Error", op)

\* The final pass over the code of the elif and else arms: every
\* JumpForward(0) in it is rewritten to reach the end of that code.
FixJumpForward(all_elif_else_code) ==
    [i \in 1..Len(all_elif_else_code) |->
        IF all_elif_else_code[i].op = "JumpForward" /\ all_elif_else_code[i].arg = 0
        THEN JumpForward(Len(all_elif_else_code) - i)
        ELSE all_elif_else_code[i]]

\* WhileCode with an exit jump one instruction short.
WhileCodeSkipOne(queue, condition_code, contents_code) ==
    LET condition_start == Len(queue)
        q1 == queue \o condition_code
        q2 == Append(q1, PopJumpIfFalse(Len(contents_code)))
        q3 == q2 \o contents_code
        return_delta == Len(q3) - condition_start + 1
    IN  q3 \o <<JumpBackward(return_delta), LoadConst(NoneObj)>>

\* The while arm once the condition and the body are compiled.
WhileCode(queue, condition_code, contents_code) ==
    LET condition_start == Len(queue)
        q1 == queue \o condition_code
        delta == Len(contents_code) + 1
        q2 == Append(q1, PopJumpIfFalse(delta))
        q3 == q2 \o contents_code
        return_delta == Len(q3) - condition_start + 1
    IN  q3 \o <<JumpBackward(return_delta), LoadConst(NoneObj)>>

\* ForCode with a backward jump one instruction short.
ForCodeBackToStore(queue, x, for_code) ==
    LET contents_len == Len(for_code)
    IN  queue \o <<GetIter, ForIter(contents_len + 2), StoreName(x)>>
              \o for_code \o <<JumpBackward(contents_len + 2)>>

\* The for arm once the iterable and the body are compiled (queue ends with
\* the iterable's code).
ForCode(queue, x, for_code) ==
    LET contents_len == Len(for_code)
    IN  queue \o <<GetIter, ForIter(contents_len + 2), StoreName(x)>>
              \o for_code \o <<JumpBackward(contents_len + 3)>>

\* The simple if: no elif and no else among the parts.
SimpleIfCode(queue, if_body) ==
    Append(queue, PopJumpIfFalse(Len(if_body))) \o if_body

\* The code of one elif arm.
ElifBlockCode(cond_code, body_code) ==
    cond_code \o <<PopJumpIfFalse(Len(body_code) + 1)>> \o body_code \o <<JumpForward(0)>>

\* ChainCode without the pass that fixes the placeholders.
ChainCodeNoFix(queue, if_body, all_elif_else_code) ==
    Append(queue, PopJumpIfFalse(Len(if_body) + 1)) \o if_body
        \o <<JumpForward(Len(all_elif_else_code))>> \o all_elif_else_code

\* The chain: the main if, its forward jump and the code of the other arms.
ChainCode(queue, if_body, all_elif_else_code) ==
    Append(queue, PopJumpIfFalse(Len(if_body) + 1)) \o if_body
        \o <<JumpForward(Len(all_elif_else_code))>>
        \o FixJumpForward(all_elif_else_code)

\* The Def arm with the final LoadConst(None), ReturnValue left out of a
\* body that already ends with a return.
DefCodeReturnOnce(queue, name, varnames, body_bytecode) ==
    LET ends == body_bytecode # <<>> /\ Last(body_bytecode).op = "ReturnValue"
        code_obj == [name |-> name,
                     bytecode |-> IF ends THEN body_bytecode
                                  ELSE body_bytecode \o <<LoadConst(NoneObj), ReturnValue>>,
                     consts |-> <<>>,
                     names |-> <<>>,
                     varnames |-> varnames]
    IN  queue \o <<LoadConst(CodeObj(code_obj)), MakeFunction, StoreName(name)>>

\* The Def arm, from the compiled body on: the body gets its final
\* LoadConst(None), ReturnValue and becomes the bytecode of a CodeObj; the
\* enclosing queue gets the three instructions that create the function.
DefCode(queue, name, varnames, body_bytecode) ==
    LET code_obj == [name |-> name,
                     bytecode |-> body_bytecode \o <<LoadConst(NoneObj), ReturnValue>>,
                     consts |-> <<>>,
                     names |-> <<>>,
                     varnames |-> varnames]
    IN  queue \o <<LoadConst(CodeObj(code_obj)), MakeFunction, StoreName(name)>>

RECURSIVE from_expr(_, _), CompileAll(_, _), ElifElseCode(_)

\* for e in exprs { PyBytecode::from_expr(e, queue) }
CompileAll(exprs, queue) ==
    IF exprs = <<>> THEN queue
    ELSE CompileAll(Tail(exprs), from_expr(Head(exprs), queue))

\* The loop over elif_else_parts: an arm with conditions is an elif, an arm
\* without is the else.
ElifElseCode(parts) ==
    IF parts = <<>> THEN <<>>
    ELSE LET part == Head(parts)
             block_code ==
                 IF part.kw = "Elif" /\ part.conds # <<>>
                 THEN ElifBlockCode(CompileAll(part.conds, <<>>),
                                    CompileAll(part.body, <<>>))
                 ELSE CompileAll(part.body, <<>>)
         IN  block_code \o ElifElseCode(Tail(parts))

from_expr(expr, queue) ==
    CASE expr.t = "None" -> queue
      [] expr.t = "Ident" -> Append(queue, LoadName(expr.name))
      [] expr.t = "Atom" -> Append(queue, LoadConst(from_atom(expr.text)))
      [] expr.t = "Operation" ->
            LET op == expr.op
                args == expr.args
            IN  CASE op = "Equals" ->
                        IF args = <<>> \/ args[1].t # "Ident"
                        THEN Append(queue, CompilePanic)
                        ELSE IF args[1].name = ""
                        THEN Append(CompileAll(Tail(args), queue), CompilePanic)
                        ELSE Append(CompileAll(Tail(args), queue), StoreName(args[1].name))
                  [] op \in {"AddEquals", "SubEquals", "MulEquals", "DivEquals"} ->
                        IF args = <<>> \/ args[1].t # "Ident" \/ Len(args) > 2
                           \/ args[1].name = ""
                        THEN Append(queue, CompilePanic)
                        ELSE CompileAll(Tail(args), Append(queue, LoadName(args[1].name)))
                                \o <<BinaryInst(op), StoreName(args[1].name)>>
                  [] op = "List" ->
                        Append(CompileAll(args, queue), Inst("BuildList", Len(args)))
                  [] op = "Set" ->
                        Append(CompileAll(args, queue), Inst("BuildSet", Len(args)))
                  [] op = "Tuple" ->
                        Append(CompileAll(args, queue), Inst("BuildTuple", Len(args)))
                  [] op = "Dot" ->
                        IF \/ Len(args) > 2
                           \/ Len(args) >= 1 /\ ~HasValueString(args[1])
                           \/ Len(args) >= 2 /\ args[2].t # "Call"
                        THEN Append(queue, CompilePanic)
                        ELSE LET lhs == IF Len(args) >= 1 THEN ValueString(args[1]) ELSE ""
                                 rhs == IF Len(args) >= 2 THEN args[2].name ELSE ""
                                 body == IF Len(args) >= 2 THEN args[2] ELSE ExprNone
                             IN  from_expr(body,
                                     queue \o <<LoadName(lhs), Inst("LoadDeref", rhs)>>)
                  [] OTHER -> Append(CompileAll(args, queue), OperationInst(op))
      [] expr.t = "Call" ->
            IF IsIntrinsic(expr.name)
            THEN Append(CompileAll(expr.args, Append(queue, PushNull)),
                        CallInstrinsic1(try_get(expr.name)))
            ELSE CompileAll(expr.args, queue)
                    \o <<LoadName(expr.name), CallFunction(Len(expr.args))>>
      [] expr.t = "Keyword" ->
            LET kw == expr.kw
                args == expr.conds
                body == expr.body
            IN  CASE kw = "True" -> Append(queue, LoadConst(BoolObj(TRUE)))
                  [] kw = "False" -> Append(queue, LoadConst(BoolObj(FALSE)))
                  [] kw \in {"Elif", "Else"} -> Append(queue, CompilePanic)
                  [] kw = "If" ->
                        LET q1 == CompileAll(args, queue)
                            parts == split_if_elif_else(body)
                            if_body ==
                                CompileAll(
                                    SelectSeq(parts,
                                              LAMBDA p : ~IsKeyword(p, {"Elif", "Else"})),
                                    <<>>)
                            elif_else_parts ==
                                SelectSeq(parts, LAMBDA p : IsKeyword(p, {"Elif", "Else"}))
                        IN  IF elif_else_parts = <<>>
                            THEN SimpleIfCode(q1, if_body)
                            ELSE ChainCode(q1, if_body, ElifElseCode(elif_else_parts))
                  [] kw = "While" ->
                        WhileCode(queue, CompileAll(args, <<>>), CompileAll(body, <<>>))
                  [] kw = "For" ->
                        IF Len(args) # 2 \/ args[2].t \notin {"Ident", "Call"}
                           \/ args[1].t # "Ident"
                        THEN Append(queue, CompilePanic)
                        ELSE ForCode(from_expr(args[2], queue), args[1].name,
                                     CompileAll(body, <<>>))
                  [] kw = "Def" ->
                        IF args = <<>> \/ args[1].t # "Ident"
                        THEN Append(queue, CompilePanic)
                        ELSE LET func_args == Tail(args)
                                 name == args[1].name
                                 body_bytecode == CompileAll(body, <<>>)
                             IN  IF \E i \in 1..Len(func_args) :
                                        ~HasValueString(func_args[i])
                                 THEN Append(queue, CompilePanic)
                                 ELSE DefCode(queue, name,
                                              [i \in 1..Len(func_args) |->
                                                  ValueString(func_args[i])],
                                              body_bytecode)
                  [] kw = "Import" ->
                        IF args = <<>> \/ ~HasValueString(args[1])
                        THEN Append(queue, CompilePanic)
                        ELSE Append(queue, Inst("ImportName", ValueString(args[1])))
                  [] kw = "Return" -> Append(CompileAll(args, queue), ReturnValue)
                  [] kw = "None" -> Append(queue, LoadConst(NoneObj))
                  [] kw = "Pass" -> Append(queue, NOP)
                  \* `other => panic!`.  Keyword::Class has an arm of its own in
                  \* the source; the inputs of this model hold no class
                  \* statement and the arm is not modelled.
                  [] OTHER -> Append(queue, CompilePanic)

\* Interpreter::compile_file, from the parsed statements on.
compile_file(parsed) == CompileAll(parsed, <<>>)

-----------------------------------------------------------------------------
(***************************************************************************)
(* The virtual machine: struct PyVM.                                       *)
(*                                                                         *)
(* input is what the run is given: a parsed file (Interpreter::            *)
(* interpret_file) or an instruction queue written by hand (PyVM::execute  *)
(* as the tests call it), and the lines waiting on standard input.         *)
(* overflow_checks is the build profile: usize arithmetic that overflows   *)
(* panics when it is on (debug) and wraps when it is off (release).        *)
(* instruction_counter is the signed reading of the usize: -k stands for   *)
(* 2^64 - k.  stdout holds the argument lists printed so far and trace the *)
(* indices of the instructions dispatched so far.                          *)
(***************************************************************************)
VARIABLES input, overflow_checks, instruction_queue, instruction_counter,
          local_stacks, var_maps, funcs, error_state, status, stdin, stdout,
          trace, executed, cache_vec, cache_ptr, variables, ctx, issued

\* The machine and its input; executed counts the calls of PyVM::execute.
vm_vars == <<input, overflow_checks, instruction_queue, instruction_counter,
             local_stacks, var_maps, funcs, error_state, status, stdin, stdout,
             trace, executed, cache_vec, cache_ptr, variables>>

vars == <<input, overflow_checks, instruction_queue, instruction_counter,
          local_stacks, var_maps, funcs, error_state, status, stdin, stdout,
          trace, executed, cache_vec, cache_ptr, variables, ctx, issued>>

\* CompileCtx::new: the pools of a compilation, empty.
CompileCtxNew == [consts |-> <<>>, names |-> <<>>]

\* The fields of the machine a handler reads and writes.  outcome is "ok"
\* while the handler has not panicked.
Self ==
    [local_stacks |-> local_stacks, var_maps |-> var_maps, funcs |-> funcs,
     instruction_counter |-> instruction_counter, error_state |-> error_state,
     stdin |-> stdin, stdout |-> stdout, outcome |-> "ok", fresh |-> Len(trace) + 1,
     cache_vec |-> cache_vec, cache_ptr |-> cache_ptr]

Panic(m) == [m EXCEPT !.outcome = "panic"]

\* usize addition and subtraction on the signed reading.
UsizeAdd(m, delta) ==
    LET c == m.instruction_counter
    IN  IF c < 0 /\ c + delta >= 0 /\ overflow_checks THEN Panic(m)
        ELSE [m EXCEPT !.instruction_counter = c + delta]

UsizeSub(m, delta) ==
    LET c == m.instruction_counter
    IN  IF c >= 0 /\ c - delta < 0 /\ overflow_checks THEN Panic(m)
        ELSE [m EXCEPT !.instruction_counter = c - delta]

get_local_stack(m) ==
    IF m.local_stacks = <<>> THEN <<>> ELSE m.local_stacks[Len(m.local_stacks)]

SetStack(m, s) == [m EXCEPT !.local_stacks[Len(m.local_stacks)] = s]

\* PyVM::push (last_mut().unwrap() panics when no stack is left)
\* A list made by the instruction at hand is numbered by the count of
\* instructions dispatched, which no other list has.
push(m, obj) ==
    IF m.local_stacks = <<>> THEN Panic(m)
    ELSE IF obj.k = "List" /\ obj.id = 0
    THEN SetStack(m, Append(get_local_stack(m), [obj EXCEPT !.id = m.fresh]))
    ELSE SetStack(m, Append(get_local_stack(m), obj))

push_err(m, e) == [push(m, ExceptObj(e)) EXCEPT !.error_state = TRUE]

\* PyVM::throw: pops the exception, prints the report and panics.
throw(m) ==
    IF get_local_stack(m) = <<>> THEN Panic([m EXCEPT !.error_state = TRUE])
    ELSE Panic(SetStack(m, Front(get_local_stack(m))))

\* PyVM::pop on an empty stack: push_err(StackError), throw.
PopEmpty(m) == throw(push_err(m, "StackError"))

\* PyVM::pop, then the rest of the handler K on the machine and the value.
WithPop(m, K(_, _)) ==
    IF m.local_stacks = <<>> THEN Panic(m)
    ELSE IF get_local_stack(m) = <<>> THEN PopEmpty(m)
    ELSE K(SetStack(m, Front(get_local_stack(m))), Last(get_local_stack(m)))

\* let rhs = self.pop(); let lhs = self.pop();
WithPop2(m, K(_, _, _)) ==
    WithPop(m, LAMBDA m1, rhs : WithPop(m1, LAMBDA m2, lhs : K(m2, lhs, rhs)))

\* PyVM::pop_n
WithPopN(m, count, K(_, _)) ==
    LET s == get_local_stack(m)
    IN  IF m.local_stacks = <<>> THEN Panic(m)
        ELSE IF Len(s) < count THEN PopEmpty(SetStack(m, <<>>))
        ELSE K(SetStack(m, SubSeq(s, 1, Len(s) - count)),
               SubSeq(s, Len(s) - count + 1, Len(s)))

Insert(map, key, val) ==
    [x \in DOMAIN map \cup {key} |-> IF x = key THEN val ELSE map[x]]

load_const(m, obj) == push(m, obj)

\* load_name pushing a copy of a list in place of the list itself.
load_nameCopy(m, name) ==
    LET local_vars == m.var_maps[Len(m.var_maps)]
    IN  IF name \in DOMAIN local_vars
        THEN push(m, IF local_vars[name].k = "List"
                     THEN ListObj(local_vars[name].v) ELSE local_vars[name])
        ELSE push_err(m, "UndefinedVariableError")

\* class_defs stays empty: no modelled instruction fills it.
load_name(m, name) ==
    LET local_vars == m.var_maps[Len(m.var_maps)]
    IN  IF name \in DOMAIN local_vars THEN push(m, local_vars[name])
        ELSE push_err(m, "UndefinedVariableError")

store_name(m, name) ==
    WithPop(m, LAMBDA m1, obj :
        [m1 EXCEPT !.var_maps[Len(m1.var_maps)] = Insert(@, name, obj)])

push_null(m) == push(m, NullObj)

\* cache_vec: an array of CacheLen slots, each Obj::default() in a new
\* machine.
CacheLen == 64

CacheNew == [i \in 0..(CacheLen - 1) |-> NoneObj]

\* PyVM::store_fast (an index outside the array panics)
store_fast(m, i) ==
    WithPop(m, LAMBDA m1, obj :
        IF i >= CacheLen THEN Panic(m1)
        ELSE [m1 EXCEPT !.cache_vec[i] = obj, !.cache_ptr = @ + 1])

\* PyVM::load_fast: mem::replace takes the value out of the slot and
\* leaves the Null object there.
load_fast(m, i) ==
    IF i >= CacheLen THEN Panic(m)
    ELSE push([m EXCEPT !.cache_vec[i] = NullObj], m.cache_vec[i])

build_list(m, len) == WithPopN(m, len, LAMBDA m1, objs : push(m1, ListObj(objs)))

build_tuple(m, count) == WithPopN(m, count, LAMBDA m1, objs : push(m1, TupleObj(objs)))

get_iter(m) ==
    WithPop(m, LAMBDA m1, obj :
        push(m1, IF IsIterable(obj) THEN iter_py(obj) ELSE ExceptObj("TypeError")))

for_iter(m, delta) ==
    WithPop(m, LAMBDA m1, top :
        IF top.k = "Iter"
        THEN IF top.v.index < Len(top.v.items)
             THEN push(push(m1, IterObj(top.v.items, top.v.index + 1)),
                       top.v.items[top.v.index + 1])
             ELSE UsizeAdd(m1, delta)
        ELSE push_err(m1, "TypeError"))

pop_jump_if_false(m, delta) ==
    WithPop(m, LAMBDA m1, cond :
        IF ~HasBool(cond) THEN Panic(m1)
        ELSE IF ~ObjBool(cond) THEN UsizeAdd(m1, delta) ELSE m1)

pop_jump_if_true(m, delta) ==
    WithPop(m, LAMBDA m1, cond :
        IF ~HasBool(cond) THEN Panic(m1)
        ELSE IF ObjBool(cond) THEN UsizeAdd(m1, delta) ELSE m1)

jump_forward(m, delta) == UsizeAdd(m, delta)

jump_backward(m, delta) == UsizeSub(m, delta)

compare_op(m, op) ==
    WithPop2(m, LAMBDA m2, lhs, rhs : push(m2, BoolObj(ObjCompareOp(lhs, rhs, op))))

\* Ok(val) => push(val), Err(e) => push_err(e)
PushResult(m, val) ==
    IF val.k = "Relock" THEN [m EXCEPT !.outcome = "relock"]
    ELSE IF val.k = "Except" THEN push_err(m, val.v)
    ELSE push(m, val)

binary_add(m) == WithPop2(m, LAMBDA m2, lhs, rhs : PushResult(m2, ObjAdd(lhs, rhs)))

binary_subtract(m) == WithPop2(m, LAMBDA m2, lhs, rhs : PushResult(m2, ObjSub(lhs, rhs)))

\* Err(e) => e.to_arc() is pushed like a value: error_state stays as it is.
binary_multiply(m) == WithPop2(m, LAMBDA m2, lhs, rhs : push(m2, ObjMul(lhs, rhs)))

binary_divide(m) == WithPop2(m, LAMBDA m2, lhs, rhs : push(m2, ObjDiv(lhs, rhs)))

unary_negative(m) == WithPop(m, LAMBDA m1, obj : PushResult(m1, ObjNeg(obj)))

\* PyVM::pop_n_or(argc, None): the values popped, oldest first, with None
\* in front for every value the stack did not hold.
call_function(m, argc) ==
    WithPop(m, LAMBDA m1, func :
        LET s == get_local_stack(m1)
            got == IF argc < Len(s) THEN argc ELSE Len(s)
            args == Repeat(NoneObj, argc - got) \o SubSeq(s, Len(s) - got + 1, Len(s))
            return_addr == m1.instruction_counter
            m2 == [SetStack(m1, SubSeq(s, 1, Len(s) - got)) EXCEPT
                      !.local_stacks = Append(@, <<IntObj(return_addr)>> \o args)]
            func_name == ObjStr(func)
        IN  IF func_name \in DOMAIN m2.funcs
            THEN [m2 EXCEPT !.instruction_counter = m2.funcs[func_name]]
            ELSE push_err(m2, "SyntaxError"))

\* return_value without pop_stack: the frame is emptied and kept.
ReturnValueKeepStack(m) ==
    IF m.local_stacks = <<>> THEN Panic(m)
    ELSE LET s == get_local_stack(m)
         IN  IF s = <<>> \/ ~HasInt(Head(s)) THEN Panic(m)
             ELSE push([SetStack(m, <<>>) EXCEPT !.instruction_counter = ObjInt(Head(s))],
                       IF Len(s) = 1 THEN NoneObj ELSE s[2])

\* fn_objs is Null followed by the whole stack of the frame, top first: its
\* last entry, the bottom of the stack, is taken as the return pointer and
\* the entry before it, the value just above the return pointer, is what is
\* passed on.
return_value(m) ==
    IF m.local_stacks = <<>> THEN Panic(m)
    ELSE LET s == get_local_stack(m)
             fn_objs == <<NullObj>> \o Reverse(s)
             ret_ptr == Last(fn_objs)
             rest == Front(fn_objs)
             emptied == SetStack(m, <<>>)
         IN  IF ObjEq(ret_ptr, NullObj) THEN throw(push_err(emptied, "StackError"))
             ELSE IF ~HasInt(ret_ptr) THEN Panic(emptied)
             ELSE LET m1 == [emptied EXCEPT
                                !.instruction_counter = ObjInt(ret_ptr),
                                !.local_stacks = Front(@)]
                  IN  push(m1, CASE Len(rest) = 0 -> ExceptObj("StackError")
                                 [] Len(rest) = 1 -> NoneObj
                                 [] OTHER -> Last(rest))

\* str::trim on a line of standard input
RECURSIVE TrimStart(_)
TrimStart(s) == IF s # <<>> /\ Head(s) = " " THEN TrimStart(Tail(s)) ELSE s

Trim(s) == Reverse(TrimStart(Reverse(TrimStart(s))))

\* RangeObj::to_vec: the loop that collects the items; up is start < end.
RangeDiverges(start, end, inc) ==
    \/ start < end /\ inc <= 0
    \/ start > end /\ inc >= 0

RECURSIVE RangeItems(_, _, _, _)
RangeItems(curr, end, inc, up) ==
    IF (up /\ curr < end) \/ (~up /\ curr > end)
    THEN <<IntObj(curr)>> \o RangeItems(curr + inc, end, inc, up)
    ELSE <<>>

\* IntrinsicFunc::range with RangeObj::from and RangeObj::to_vec; a limit
\* that is not an Int counts as absent.
range(m, limits) ==
    IF Len(limits) < 3 THEN Panic(m)
    ELSE LET s == limits[1]
             e == limits[2]
             i == limits[3]
             one_arg == e.k # "Int"
             start == IF one_arg \/ s.k # "Int" THEN 0 ELSE s.v
             end == IF one_arg THEN (IF s.k = "Int" THEN s.v ELSE 0) ELSE e.v
             inc == IF one_arg \/ i.k # "Int" THEN 1 ELSE i.v
         IN  IF RangeDiverges(start, end, inc) THEN [m EXCEPT !.outcome = "hang"]
             ELSE push(m, ListObj(RangeItems(start, end, inc, start < end)))

\* IntrinsicFunc::print returns nothing; stdout records the arguments.
print(m, objs) == [m EXCEPT !.stdout = Append(@, objs)]

\* IntrinsicFunc::input: one line of standard input ("" at end of input).
input_line(m, words) ==
    IF Len(words) # 1 THEN Panic(m)
    ELSE LET line == IF m.stdin = <<>> THEN <<>> ELSE Head(m.stdin)
         IN  push([m EXCEPT !.stdin = IF @ = <<>> THEN <<>> ELSE Tail(@)],
                  StrObj(Trim(line)))

\* call_intrinsic_1 without the pop of the sentinel.
call_intrinsic_1KeepNull(m, ptr) ==
    LET s == get_local_stack(m)
        nulls == {j \in 1..Len(s) : ObjEq(s[j], NullObj)}
    IN  IF nulls = {} THEN Panic(m)
        ELSE LET j == CHOOSE x \in nulls : \A y \in nulls : y <= x
                 args == SubSeq(s, j + 1, Len(s))
                 m1 == SetStack(m, SubSeq(s, 1, j))
             IN  CASE ptr = "Print" -> print(m1, args)
                   [] ptr = "Input" -> input_line(m1, args)
                   [] ptr = "Range" -> range(m1, args)

\* pop_until_null (top() panics on a stack without a Null), pop, the call.
call_intrinsic_1(m, ptr) ==
    LET s == get_local_stack(m)
        nulls == {j \in 1..Len(s) : ObjEq(s[j], NullObj)}
    IN  IF nulls = {} THEN Panic(m)
        ELSE LET j == CHOOSE x \in nulls : \A y \in nulls : y <= x
                 args == SubSeq(s, j + 1, Len(s))
                 m1 == SetStack(m, SubSeq(s, 1, j - 1))
             IN  CASE ptr = "Print" -> print(m1, args)
                   [] ptr = "Input" -> input_line(m1, args)
                   [] ptr = "Range" -> range(m1, args)

make_function(m) ==
    WithPop2(m, LAMBDA m2, name, addr :
        IF ~HasInt(addr) THEN Panic(m2)
        ELSE [m2 EXCEPT !.funcs = Insert(@, ObjStr(name), ObjInt(addr))])

-----------------------------------------------------------------------------
(***************************************************************************)
(* The steps of a run.                                                     *)
(***************************************************************************)
\* Expression::eval: Ok(value), Err(exception) or a panic, and the
\* variables as the evaluation leaves them.
EvalOk(obj, vs) == [r |-> "ok", v |-> obj, variables |-> vs]

EvalPanic(vs) == [r |-> "panic", v |-> NoneObj, variables |-> vs]

\* match Obj::add(..) { Obj::Except(e) => Err(e), o => Ok(o.into()) }
EvalResult(obj, vs) ==
    IF obj.k = "Relock" THEN EvalPanic(vs)
    ELSE [r |-> IF obj.k = "Except" THEN "err" ELSE "ok", v |-> obj, variables |-> vs]

RECURSIVE eval(_, _), EvalList(_, _, _), EvalConds(_, _, _)
eval(e, vs) ==
    CASE e.t = "None" -> EvalOk(NoneObj, vs)
      [] e.t = "Atom" -> EvalOk(from_atom(e.text), vs)
      [] e.t = "Ident" ->
            IF e.name \in DOMAIN vs THEN EvalOk(vs[e.name], vs)
            ELSE EvalResult(ExceptObj("UndefinedVariableError"), vs)
      [] e.t = "Operation" ->
            LET operator == e.op
                operands == e.args
            IN  IF operands = <<>> THEN EvalPanic(vs)
                ELSE IF operator = "Equals"
                THEN IF Len(operands) < 2 THEN EvalPanic(vs)
                     ELSE LET value == eval(operands[2], vs)
                          IN  IF value.r # "ok" THEN value
                              ELSE IF ~HasValueString(operands[1])
                              THEN EvalPanic(value.variables)
                              ELSE EvalOk(value.v,
                                          Insert(value.variables,
                                                 ValueString(operands[1]), value.v))
                ELSE IF operator = "List" THEN EvalList(operands, <<>>, vs)
                ELSE IF Len(operands) < 2 THEN EvalPanic(vs)
                ELSE LET rhs == eval(operands[2], vs)
                         lhs == eval(operands[1], rhs.variables)
                     IN  IF rhs.r # "ok" THEN rhs
                         ELSE IF lhs.r # "ok" THEN lhs
                         ELSE CASE operator = "Pos" -> EvalOk(lhs.v, lhs.variables)
                                [] operator = "Neg" ->
                                      EvalResult(ObjNeg(lhs.v), lhs.variables)
                                [] operator = "Plus" ->
                                      EvalResult(ObjAdd(lhs.v, rhs.v), lhs.variables)
                                [] operator = "Minus" ->
                                      EvalResult(ObjSub(lhs.v, rhs.v), lhs.variables)
                                [] operator = "Asterisk" ->
                                      EvalResult(ObjMul(lhs.v, rhs.v), lhs.variables)
                                [] operator = "ForwardSlash" ->
                                      EvalResult(ObjDiv(lhs.v, rhs.v), lhs.variables)
                                [] operator \in {"Eq", "Neq", "LessThan", "GreaterThan",
                                                 "LessEq", "GreaterEq"} ->
                                      EvalOk(BoolObj(ObjCompareOp(lhs.v, rhs.v, operator)),
                                             lhs.variables)
                                [] OTHER -> EvalPanic(lhs.variables)
      [] e.t = "Call" -> EvalPanic(vs)
      [] e.t = "Keyword" ->
            CASE e.kw = "True" -> EvalOk(BoolObj(TRUE), vs)
              [] e.kw = "False" -> EvalOk(BoolObj(FALSE), vs)
              [] e.kw \in {"If", "While"} -> EvalConds(e.conds, TRUE, vs)
              [] OTHER -> EvalPanic(vs)

\* The List arm: the operands in order, the first error ends it.
EvalList(operands, objs, vs) ==
    IF operands = <<>> THEN EvalOk(ListObj(objs), vs)
    ELSE LET obj == eval(Head(operands), vs)
         IN  IF obj.r # "ok" THEN obj
             ELSE EvalList(Tail(operands), Append(objs, obj.v), obj.variables)

\* conds.iter().map(|x| x.eval(..).unwrap().__bool__()).all(|x| x): all
\* stops at the first condition that is false.
EvalConds(conds, all, vs) ==
    IF conds = <<>> \/ ~all THEN EvalOk(BoolObj(all), vs)
    ELSE LET cond == eval(Head(conds), vs)
         IN  IF cond.r # "ok" \/ ~HasBool(cond.v) THEN EvalPanic(cond.variables)
             ELSE EvalConds(Tail(conds), ObjBool(cond.v), cond.variables)

InQueue(i) == i \in 0..(Len(instruction_queue) - 1)

\* The instruction execute() fetches next.
Fetched == instruction_queue[instruction_counter + 1]

Commit(m) ==
    /\ local_stacks' = m.local_stacks
    /\ var_maps' = m.var_maps
    /\ funcs' = m.funcs
    /\ instruction_counter' = m.instruction_counter
    /\ error_state' = m.error_state
    /\ stdin' = m.stdin
    /\ stdout' = m.stdout
    /\ cache_vec' = m.cache_vec
    /\ cache_ptr' = m.cache_ptr
    /\ status' \in CASE m.outcome = "ok" -> {"running"}
                     [] m.outcome = "relock" -> {"panic", "hang"}
                     [] OTHER -> {m.outcome}
    /\ trace' = Append(trace, instruction_counter)
    /\ UNCHANGED <<input, overflow_checks, instruction_queue, executed, variables,
                   ctx, issued>>

\* PyVM::execute_instruction is about to dispatch an instruction op.
Ready(op) ==
    /\ status = "running"
    /\ InQueue(instruction_counter)
    /\ Fetched.op = op

\* The end of PyVM::execute_instruction on the machine m1 the handler left:
\* the check of error_state, the step to the next index.
AfterHandler(m1) ==
    IF m1.outcome # "ok" THEN m1
    ELSE IF m1.error_state THEN throw(m1)
    ELSE UsizeAdd(m1, 1)

\* Interpreter::interpret_file: compile_file, then execute on a new PyVM.
interpret_file ==
    /\ status = "new"
    /\ input.kind = "file"
    /\ LET queue == compile_file(input.parsed)
       IN  IF Panicked(queue)
           THEN status' = "panic" /\ UNCHANGED <<instruction_queue, executed>>
           ELSE status' = "running" /\ instruction_queue' = queue /\ executed' = 1
    /\ UNCHANGED <<input, overflow_checks, instruction_counter, local_stacks,
                   var_maps, funcs, error_state, stdin, stdout, trace,
                   cache_vec, cache_ptr, variables, ctx, issued>>

\* PyBytecode::from_str, then PyVM::execute: the line is parsed and
\* compiled as a file of that one line.
from_str ==
    /\ status = "new"
    /\ input.kind = "line"
    /\ LET queue == compile_file(<<from_line(input.tokens)>>)
       IN  IF Panicked(queue)
           THEN status' = "panic" /\ UNCHANGED <<instruction_queue, executed>>
           ELSE status' = "running" /\ instruction_queue' = queue /\ executed' = 1
    /\ UNCHANGED <<input, overflow_checks, instruction_counter, local_stacks,
                   var_maps, funcs, error_state, stdin, stdout, trace,
                   cache_vec, cache_ptr, variables, ctx, issued>>

\* Interpreter::execute_expr: the expression is compiled by itself and the
\* queue executed, which is what the machine is given for a file that holds
\* this one expression.
execute_expr ==
    /\ status = "new"
    /\ input.kind = "expr"
    /\ LET queue == from_expr(input.parsed[1], <<>>)
       IN  IF Panicked(queue)
           THEN status' = "panic" /\ UNCHANGED <<instruction_queue, executed>>
           ELSE status' = "running" /\ instruction_queue' = queue /\ executed' = 1
    /\ UNCHANGED <<input, overflow_checks, instruction_counter, local_stacks,
                   var_maps, funcs, error_state, stdin, stdout, trace,
                   cache_vec, cache_ptr, variables, ctx, issued>>

\* Interpreter::process_expr on an expression that opens no block, in the
\* interactive mode (repr is set): an assignment is evaluated and stored,
\* any other expression is evaluated and its value printed unless it is
\* None; an exception is printed.  (The If and While arms run the blocks
\* of the interactive interpreter, which the inputs of this model do not
\* hold.)
process_expr ==
    /\ status = "new"
    /\ input.kind = "expr"
    /\ ~IsKeyword(input.parsed[1], {"If", "While"})
    /\ LET expr == input.parsed[1]
           assign == expr.t = "Operation" /\ expr.op = "Equals"
           res == IF assign /\ expr.args # <<>> /\ expr.args[1].t \in {"Atom", "Ident"}
                  THEN LET value == eval(Last(expr.args), variables)
                       IN  IF value.r = "ok"
                           THEN EvalOk(NoneObj,
                                       Insert(value.variables,
                                              ValueString(expr.args[1]), value.v))
                           ELSE value
                  ELSE IF expr.t = "Keyword"
                          \/ (assign /\ (expr.args = <<>> \/ expr.args[1].t # "Keyword"))
                  THEN EvalPanic(variables)
                  ELSE eval(expr, variables)
       IN  /\ status' = IF res.r = "panic" THEN "panic" ELSE "evaluated"
           /\ variables' = res.variables
           /\ stdout' = IF res.r = "panic" \/ (res.r = "ok" /\ ObjEq(res.v, NoneObj))
                         THEN stdout ELSE Append(stdout, <<res.v>>)
    /\ UNCHANGED <<input, overflow_checks, instruction_queue, instruction_counter,
                   local_stacks, var_maps, funcs, error_state, stdin, trace,
                   executed, cache_vec, cache_ptr, ctx, issued>>

\* PyVM::execute on a queue written by hand.
execute ==
    /\ status = "new"
    /\ input.kind = "queue"
    /\ instruction_queue' = input.queue
    /\ status' = "running"
    /\ executed' = 1
    /\ UNCHANGED <<input, overflow_checks, instruction_counter, local_stacks,
                   var_maps, funcs, error_state, stdin, stdout, trace,
                   cache_vec, cache_ptr, variables, ctx, issued>>

\* The while-let of execute finds no instruction at the counter.
Halt ==
    /\ status = "running"
    /\ ~InQueue(instruction_counter)
    /\ status' = "halted"
    /\ UNCHANGED <<input, overflow_checks, instruction_queue, instruction_counter,
                   local_stacks, var_maps, funcs, error_state, stdin, stdout, trace,
                   executed, cache_vec, cache_ptr, variables, ctx, issued>>

\* PyVM::execute called again on the machine that has run a queue to its
\* end: the queue is replaced, nothing else is.
execute_again ==
    /\ status = "halted"
    /\ executed <= Len(input.again)
    /\ instruction_queue' = input.again[executed]
    /\ executed' = executed + 1
    /\ status' = "running"
    /\ UNCHANGED <<input, overflow_checks, instruction_counter, local_stacks,
                   var_maps, funcs, error_state, stdin, stdout, trace,
                   cache_vec, cache_ptr, variables, ctx, issued>>

\* NOP returns before the match and before the check of error_state.
ExecNOP ==
    /\ Ready("NOP")
    /\ Commit(UsizeAdd(Self, 1))

ExecLoadConst ==
    /\ Ready("LoadConst")
    /\ Commit(AfterHandler(load_const(Self, Fetched.arg)))

ExecLoadName ==
    /\ Ready("LoadName")
    /\ Commit(AfterHandler(load_name(Self, Fetched.arg)))

ExecStoreName ==
    /\ Ready("StoreName")
    /\ Commit(AfterHandler(store_name(Self, Fetched.arg)))

ExecLoadFast ==
    /\ Ready("LoadFast")
    /\ Commit(AfterHandler(load_fast(Self, Fetched.arg)))

ExecStoreFast ==
    /\ Ready("StoreFast")
    /\ Commit(AfterHandler(store_fast(Self, Fetched.arg)))

ExecPushNull ==
    /\ Ready("PushNull")
    /\ Commit(AfterHandler(push_null(Self)))

ExecBuildList ==
    /\ Ready("BuildList")
    /\ Commit(AfterHandler(build_list(Self, Fetched.arg)))

ExecBuildTuple ==
    /\ Ready("BuildTuple")
    /\ Commit(AfterHandler(build_tuple(Self, Fetched.arg)))

ExecGetIter ==
    /\ Ready("GetIter")
    /\ Commit(AfterHandler(get_iter(Self)))

ExecForIter ==
    /\ Ready("ForIter")
    /\ Commit(AfterHandler(for_iter(Self, Fetched.arg)))

ExecBinaryAdd ==
    /\ Ready("BinaryAdd")
    /\ Commit(AfterHandler(binary_add(Self)))

ExecBinarySubtract ==
    /\ Ready("BinarySubtract")
    /\ Commit(AfterHandler(binary_subtract(Self)))

ExecBinaryMultiply ==
    /\ Ready("BinaryMultiply")
    /\ Commit(AfterHandler(binary_multiply(Self)))

ExecBinaryDivide ==
    /\ Ready("BinaryDivide")
    /\ Commit(AfterHandler(binary_divide(Self)))

ExecUnaryNegative ==
    /\ Ready("UnaryNegative")
    /\ Commit(AfterHandler(unary_negative(Self)))

ExecCallFunction ==
    /\ Ready("CallFunction")
    /\ Commit(AfterHandler(call_function(Self, Fetched.arg)))

ExecCallInstrinsic1 ==
    /\ Ready("CallInstrinsic1")
    /\ Commit(AfterHandler(call_intrinsic_1(Self, Fetched.arg)))

ExecReturnValue ==
    /\ Ready("ReturnValue")
    /\ Commit(AfterHandler(return_value(Self)))

ExecPopJumpIfFalse ==
    /\ Ready("PopJumpIfFalse")
    /\ Commit(AfterHandler(pop_jump_if_false(Self, Fetched.arg)))

ExecPopJumpIfTrue ==
    /\ Ready("PopJumpIfTrue")
    /\ Commit(AfterHandler(pop_jump_if_true(Self, Fetched.arg)))

ExecJumpForward ==
    /\ Ready("JumpForward")
    /\ Commit(AfterHandler(jump_forward(Self, Fetched.arg)))

ExecJumpBackward ==
    /\ Ready("JumpBackward")
    /\ Commit(AfterHandler(jump_backward(Self, Fetched.arg)))

ExecCompareOp ==
    /\ Ready("CompareOp")
    /\ Commit(AfterHandler(compare_op(Self, Fetched.arg)))

ExecMakeFunction ==
    /\ Ready("MakeFunction")
    /\ Commit(AfterHandler(make_function(Self)))

\* The instructions the compiler emits and the match has no arm for.
NotImplemented == {"BuildSet", "LoadDeref", "ImportName", "Error"}

\* _ => panic!("Instruction {:?} not implemented ", inst)
ExecNotImplemented ==
    /\ status = "running"
    /\ InQueue(instruction_counter)
    /\ Fetched.op \in NotImplemented
    /\ Commit(Panic(Self))

-----------------------------------------------------------------------------
(***************************************************************************)
(* The inputs of the runs: programs as Expression::from_multiline parses   *)
(* them (an elif or else line is a marker with an empty body in the body   *)
(* of its if, followed by the statements of its arm) and instruction       *)
(* queues written by hand, as the tests write them.                        *)
(***************************************************************************)
KwTrue == Keyword("True", <<>>, <<>>)

KwFalse == Keyword("False", <<>>, <<>>)

Pass == Keyword("Pass", <<>>, <<>>)

Num(n) == IF n < 0 THEN Operation("Neg", <<Atom(IntText(-n))>>) ELSE Atom(IntText(n))

Text(c) == Atom(<<c>>)

Assign(x, e) == Operation("Equals", <<Ident(x), e>>)

CallOf(f, e) == Call(f, <<e>>)

File(parsed, lines) ==
    [kind |-> "file", parsed |-> parsed, queue |-> <<>>, lines |-> lines, tokens |-> <<>>,
     again |-> <<>>]

\* A queue for PyVM::execute, then the queues of later calls on that machine.
Queues(queue, again) ==
    [kind |-> "queue", parsed |-> <<>>, queue |-> queue, lines |-> <<>>, tokens |-> <<>>,
     again |-> again]

Queue(queue) == Queues(queue, <<>>)

\* An expression handed to the Interpreter as it is.
Expr(e) ==
    [kind |-> "expr", parsed |-> <<e>>, queue |-> <<>>, lines |-> <<>>, tokens |-> <<>>,
     again |-> <<>>]

\* A source of one line, given by its tokens.
Line(tokens) ==
    [kind |-> "line", parsed |-> <<>>, queue |-> <<>>, lines |-> <<>>, tokens |-> tokens,
     again |-> <<>>]

BoolCond(b) == IF b THEN KwTrue ELSE KwFalse

\* p statements in front of the construct
Prefix(p) == [i \in 1..p |-> Assign("x", Num(2))]

\* n statements print(j)
Prints(j, n) == [i \in 1..n |-> CallOf("print", j)]

\* if c0: n0 prints / elif c_k: n1 prints ... / else: n1 prints
ChainStmt(cond0, conds, n0, n1, has_else) ==
    Keyword("If", <<cond0>>,
        Prints(Num(0), n0)
        \o Flatten([k \in 1..Len(conds) |->
                      <<Keyword("Elif", <<BoolCond(conds[k])>>, <<>>)>>
                          \o Prints(Num(k), n1)])
        \o (IF has_else
            THEN <<Keyword("Else", <<>>, <<>>)>> \o Prints(Num(9), n1)
            ELSE <<>>))

\* x = 2 ... / if ...: ... / print(8)
IfProgram(p, cond0, conds, n0, n1, has_else, s) ==
    File(Prefix(p) \o <<ChainStmt(cond0, conds, n0, n1, has_else)>>
             \o Prints(Num(8), s), <<>>)

\* if c1: / (if c2: print(1)) / print(2)       and, as an elif arm,
\* if c0: print(0) / elif c1: / (if c2: print(1)) / print(2)
NestedIfProgram(in_elif, c0, c1, c2) ==
    LET arm == <<Keyword("If", <<BoolCond(c2)>>, <<CallOf("print", Num(1))>>),
                 CallOf("print", Num(2))>>
    IN  File(IF in_elif
             THEN <<Keyword("If", <<BoolCond(c0)>>,
                        <<CallOf("print", Num(0)),
                          Keyword("Elif", <<BoolCond(c1)>>, <<>>)>> \o arm)>>
             ELSE <<Keyword("If", <<BoolCond(c1)>>, arm)>>,
             <<>>)

\* while x < limit: n prints of x / x += 1
CounterWhile(limit, n) ==
    Keyword("While", <<Operation("LessThan", <<Ident("x"), Num(limit)>>)>>,
            Prints(Ident("x"), n) \o <<Operation("AddEquals", <<Ident("x"), Num(1)>>)>>)

\* while input("a"): n prints (pass when n = 0)
InputWhile(n) ==
    Keyword("While", <<CallOf("input", Text("a"))>>,
            IF n = 0 THEN <<Pass>> ELSE Prints(Num(1), n))

\* for i in <iterable>: n prints of i (pass when n = 0)
ForStmt(iterable, n) ==
    Keyword("For", <<Ident("i"), iterable>>,
            IF n = 0 THEN <<Pass>> ELSE Prints(Ident("i"), n))

RangeCall(limit) == Call("range", <<Num(0), Num(limit), Num(1)>>)

\* The statement inside the body of another construct.
Nest(w, stmt) ==
    CASE w = "none" -> <<stmt>>
      [] w = "if" -> <<Keyword("If", <<KwTrue>>, <<stmt>>)>>
      [] w = "elif" ->
            <<Keyword("If", <<KwFalse>>,
                <<Pass, Keyword("Elif", <<KwTrue>>, <<>>), stmt>>)>>
      [] w = "else" ->
            <<Keyword("If", <<KwFalse>>,
                <<Pass, Keyword("Else", <<>>, <<>>), CallOf("print", Num(3)), stmt>>)>>
      [] w = "while" -> <<Keyword("While", <<CallOf("input", Text("b"))>>, <<stmt, Pass>>)>>
      [] w = "for" -> <<Keyword("For", <<Ident("j"), RangeCall(1)>>, <<stmt>>)>>

Wraps == {"none", "if", "elif", "else", "while", "for"}

\* k lines that read as true, then blank lines
Lines(k) == Repeat(<<"a">>, k) \o <<<<" ">>, <<" ">>>>

\* if False: pass / elif True: / while input("b"): / the chain
\* `if c: print(0) / elif d: print(1)`
ElifWhileProgram(c, d, k) ==
    File(Nest("elif", Keyword("While", <<CallOf("input", Text("b"))>>,
                          <<ChainStmt(BoolCond(c), <<d>>, 1, 1, FALSE)>>)),
         Lines(k))

\* x = 2 ... / x = 0 / the counter loop
CounterProgram(p, limit, n) ==
    File(Prefix(p) \o <<Assign("x", Num(0)), CounterWhile(limit, n)>>, <<>>)

InputProgram(p, w, k, n) == File(Prefix(p) \o Nest(w, InputWhile(n)), Lines(k))

\* l = [1, ..., len] / for i in l: ...        and for i in range(0, len, 1): ...
ListForProgram(p, w, len, n) ==
    File(Prefix(p)
             \o <<Assign("l", Operation("List", [i \in 1..len |-> Num(i)]))>>
             \o Nest(w, ForStmt(Ident("l"), n)),
         Lines(1))

\* l = [1, ..., len] / for i in l: (l = [0]) / print(i)
RebindForProgram(len, rebind) ==
    File(<<Assign("l", Operation("List", [i \in 1..len |-> Num(i)])),
           Keyword("For", <<Ident("i"), Ident("l")>>,
               (IF rebind THEN <<Assign("l", Operation("List", <<Num(0)>>))>> ELSE <<>>)
                   \o <<CallOf("print", Ident("i"))>>)>>,
         <<>>)

\* l = [1, ..., len] / for i in l: / one statement: print(i), x = i, the
\* expression i, or `while input("a"): pass`
ForBodies == <<"print", "assign", "expr", "while">>

ForBodyProgram(len, body) ==
    LET stmt == CASE body = "print" -> CallOf("print", Ident("i"))
                  [] body = "assign" -> Assign("x", Ident("i"))
                  [] body = "expr" -> Ident("i")
                  [] body = "while" -> InputWhile(0)
    IN  File(<<Assign("l", Operation("List", [i \in 1..len |-> Num(i)])),
               Keyword("For", <<Ident("i"), Ident("l")>>, <<stmt>>)>>,
             <<>>)

RangeForProgram(p, len, n) == File(Prefix(p) \o <<ForStmt(RangeCall(len), n)>>, <<>>)

\* r = range(end), r = range(start, end), r = range(start, end, step)
RangeProgram(argc, start, end, step) ==
    File(<<Assign("r", Call("range",
               CASE argc = 1 -> <<Num(end)>>
                 [] argc = 2 -> <<Num(start), Num(end)>>
                 [] argc = 3 -> <<Num(start), Num(end), Num(step)>>))>>, <<>>)

\* The operands of the binary programs: 0  1  "a"  2  5  0.0  1.0  2.5
\* True  False  "nan"  [1, 2]  [3]  None
Operands ==
    <<Num(0), Num(1), Text("a"), Num(2), Num(5),
      Atom(<<"0", ".", "0">>), Atom(<<"1", ".", "0">>), Atom(<<"2", ".", "5">>),
      KwTrue, KwFalse, Atom(<<"n", "a", "n">>),
      Operation("List", <<Num(1), Num(2)>>), Operation("List", <<Num(3)>>),
      Keyword("None", <<>>, <<>>)>>

Operand(c) == Operands[c + 1]

Arithmetic == {"Plus", "Minus", "Asterisk", "ForwardSlash"}

Comparisons == {"Eq", "Neq", "LessEq", "LessThan", "GreaterEq", "GreaterThan"}

\* The numeric literals of the expressions that both the evaluator and the
\* machine are given: 0  1  2  0.0  2.5
NumLits == <<Num(0), Num(1), Num(2), Atom(<<"0", ".", "0">>), Atom(<<"2", ".", "5">>)>>

\* a <op> b,  -a,  -a + b  and  a + b < c
NumExpr(shape, op, a, b, c) ==
    CASE shape = "binary" -> Operation(op, <<NumLits[a], NumLits[b]>>)
      [] shape = "neg" -> Operation("Neg", <<NumLits[a]>>)
      [] shape = "negsum" ->
            Operation("Plus", <<Operation("Neg", <<NumLits[a]>>), NumLits[b]>>)
      [] shape = "nested" ->
            Operation("LessThan", <<Operation(op, <<NumLits[a], NumLits[b]>>), NumLits[c]>>)

\* x = [1, 2] / y = [3, 4] / z = a + b, for a and b among x and y.
ListAddProgram(a, b) ==
    File(<<Assign("x", Operation("List", <<Num(1), Num(2)>>)),
           Assign("y", Operation("List", <<Num(3), Num(4)>>)),
           Assign("z", Operation("Plus", <<Ident(a), Ident(b)>>))>>, <<>>)

\* a = [1, ..., n] / b = a            and, with no alias,
\* a = [1, ..., n] / b = [1, ..., n]
AliasProgram(n, alias) ==
    LET list == Operation("List", [i \in 1..n |-> Num(i)])
    IN  File(<<Assign("a", list), Assign("b", IF alias THEN Ident("a") ELSE list)>>,
             <<>>)

\* x = a <op> b / print(x)
BinaryProgram(op, a, b) ==
    File(<<Assign("x", Operation(op, <<Operand(a), Operand(b)>>)),
           CallOf("print", Ident("x"))>>, <<>>)

\* print(u) / print(1), u undefined        x = -"a" / print(1)
\* n = 5 / for i in n: pass / print(1)      s = {1}
FaultProgram(f) ==
    CASE f = "name" -> File(<<CallOf("print", Ident("u")), CallOf("print", Num(1))>>, <<>>)
      [] f = "neg" ->
            File(<<Assign("x", Operation("Neg", <<Text("a")>>)),
                   CallOf("print", Num(1))>>, <<>>)
      [] f = "iter" ->
            File(<<Assign("n", Num(5)), ForStmt(Ident("n"), 0),
                   CallOf("print", Num(1))>>, <<>>)
      [] f = "set" -> File(<<Assign("s", Operation("Set", <<Num(1)>>))>>, <<>>)
      [] f = "member" ->
            File(<<Assign("o", Num(1)),
                   Operation("Dot", <<Ident("o"), Call("f", <<>>)>>)>>, <<>>)

Faults == {"name", "neg", "iter", "set", "member"}

\* A construct the compiler has no instruction for, then print(1): the Dot
\* of two atoms, not True, +1, a keyword in by itself.
UnsupportedProgram(u) ==
    LET stmt == CASE u = "dot" -> Operation("Dot", <<Text("a"), Text("b")>>)
                  [] u = "not" -> Operation("Not", <<KwTrue>>)
                  [] u = "pos" -> Operation("Pos", <<Num(1)>>)
                  [] u = "in" -> Keyword("In", <<>>, <<>>)
    IN  File(<<stmt, CallOf("print", Num(1))>>, <<>>)

Unsupported == {"dot", "not", "pos", "in"}

\* def add(a, b): return a + b / result = add(m, n)
AddProgram(m, n) ==
    File(<<Keyword("Def", <<Ident("add"), Ident("a"), Ident("b")>>,
               <<Keyword("Return",
                         <<Operation("Plus", <<Ident("a"), Ident("b")>>)>>, <<>>)>>),
           Assign("result", Call("add", <<Num(m), Num(n)>>))>>, <<>>)

ParamNames == <<"p1", "p2", "p3">>

\* The bodies of a definition: none, pass, print(1), return 1,
\* print(1) / return 1.
DefBodies ==
    <<<<>>,
      <<Pass>>,
      <<CallOf("print", Num(1))>>,
      <<Keyword("Return", <<Num(1)>>, <<>>)>>,
      <<CallOf("print", Num(1)), Keyword("Return", <<Num(1)>>, <<>>)>>>>

\* x = 2 ... / def f(p1, ..., pk): body
DefProgram(p, k, body) ==
    File(Prefix(p) \o <<Keyword("Def", <<Ident("f")>> \o [i \in 1..k |-> Ident(ParamNames[i])],
                                DefBodies[body])>>, <<>>)

\* The texts of the quoted literals: "a"  "ab"  "5"  "1.5"  ""
QuotedTexts == <<<<"a">>, <<"a", "b">>, <<"5">>, <<"1", ".", "5">>, <<>>>>

\* The line that is the one word "text", quotes included.
QuotedLine(text) == Line(Lexer(<<<<Quote>> \o text \o <<Quote>>>>))

\* The values a program binds to v: 1  2.5  "a"  True  None  [1, 2]  []
\* (1, 2)  {1}
Bindable ==
    <<Num(1), Atom(<<"2", ".", "5">>), Text("a"), KwTrue, Keyword("None", <<>>, <<>>),
      Operation("List", <<Num(1), Num(2)>>), Operation("List", <<>>),
      Operation("Tuple", <<Num(1), Num(2)>>), Operation("Set", <<Num(1)>>)>>

\* v = <value> / r = v == v / q = v != v
ReflexiveProgram(c) ==
    File(<<Assign("v", Bindable[c]),
           Assign("r", Operation("Eq", <<Ident("v"), Ident("v")>>)),
           Assign("q", Operation("Neq", <<Ident("v"), Ident("v")>>))>>, <<>>)

\* The literals of an arithmetic line, from the r-th on: 2 3 4 5 2 3 ...
ExprLiterals == <<2, 3, 4, 5>>

\* The tokens of  l_1 ops[1] l_2 ... ops[n] l_n+1.
ExprTokens(r, ops) ==
    [i \in 1..(2 * Len(ops) + 1) |->
        IF i % 2 = 1
        THEN TokAtom(IntText(ExprLiterals[((r + (i \div 2)) % Len(ExprLiterals)) + 1]))
        ELSE TokOp(ops[i \div 2])]

\* 2 + 3 * 4 - 5 / 2
ExprExample == Line(ExprTokens(0, <<"Plus", "Asterisk", "Minus", "ForwardSlash">>))

\* c = [1, ..., n], c = (1, ..., n) or c = {1, ..., n}, and the same
\* literal as the second item of a list: c = ["b", (1, ..., n)].
Literal(kind, n) == Operation(kind, [i \in 1..n |-> Num(i)])

LiteralProgram(kind, n, nested) ==
    File(<<Assign("c", IF nested
                       THEN Operation("List", <<Text("b"), Literal(kind, n)>>)
                       ELSE Literal(kind, n))>>, <<>>)

\* x = 2 / if x: print(x)
IfExample ==
    File(<<Assign("x", Num(2)),
           Keyword("If", <<Ident("x")>>, <<CallOf("print", Ident("x"))>>)>>, <<>>)

StrConst(c) == LoadConst(StrObj(<<c>>))

\* A function inlined in the queue, as the tests list it: its name and the
\* index of the jump over its body are registered by MakeFunction; the body
\* stores its argc arguments, pushes the values vals in order and returns;
\* the call follows the body.
FunctionQueue(argc, vals) ==
    LET body == [i \in 1..argc |-> StoreName("p")]
                    \o [i \in 1..Len(vals) |-> LoadConst(IntObj(vals[i]))]
                    \o <<ReturnValue>>
    IN  Queue(<<StrConst("f"), LoadConst(IntObj(3)), MakeFunction,
                JumpForward(Len(body))>>
              \o body
              \o [i \in 1..argc |-> LoadConst(IntObj(7))]
              \o <<StrConst("f"), CallFunction(argc), StoreName("r")>>)

\* The function f of FunctionQueue with params parameters p1, p2, ..., stored
\* from the last to the first as the arguments come off the stack, called
\* with the argc arguments 1, ..., argc while the caller's stack holds
\* below other values.
CallQueue(below, params, argc, vals) ==
    LET body == [i \in 1..params |-> StoreName(ParamNames[params - i + 1])]
                    \o [i \in 1..Len(vals) |-> LoadConst(IntObj(vals[i]))]
                    \o <<ReturnValue>>
    IN  Queue(<<StrConst("f"), LoadConst(IntObj(3)), MakeFunction,
                JumpForward(Len(body))>>
              \o body
              \o [i \in 1..below |-> StrConst("b")]
              \o [i \in 1..argc |-> LoadConst(IntObj(i))]
              \o <<StrConst("f"), CallFunction(argc), StoreName("r")>>)

\* The values print is given.
PrintVals == <<IntObj(1), NoneObj, StrObj(<<"a">>), NaN>>

\* What the stack holds when the call begins: nothing, a value, or the
\* sentinel and a value of a call that has not been made yet.
Below == <<<<>>, <<StrConst("b")>>, <<PushNull, StrConst("b")>>>>

\* below / PushNull / the values vals / CallInstrinsic1(Print)
PrintQueue(below, vals) ==
    Queue(Below[below] \o <<PushNull>>
              \o [i \in 1..Len(vals) |-> LoadConst(PrintVals[vals[i]])]
              \o <<CallInstrinsic1("Print")>>)

\* k times LoadConst(v) / StoreName(x)
Stores(k, v, x) == Flatten(Repeat(<<LoadConst(IntObj(v)), StoreName(x)>>, k))

\* A queue that binds a, then on the same machine a queue that binds b.
TwoQueues(k1, k2) == Queues(Stores(k1, 1, "a"), <<Stores(k2, 2, "b")>>)

\* LoadConst(v) / StoreFast(i) / LoadFast(i), loads times
FastQueue(i, v, loads) ==
    Queue(<<LoadConst(IntObj(v)), StoreFast(i)>> \o Repeat(LoadFast(i), loads))

\* The slots used: the first, the last, and the index behind the array.
FastSlots == {0, CacheLen - 1, CacheLen}

\* LoadConst c / PopJumpIfTrue(d) / two more instructions
JumpIfTrueQueue(c, d) ==
    Queue(<<LoadConst(BoolObj(c)), PopJumpIfTrue(d), LoadConst(IntObj(1)),
            StoreName("x")>>)

\* An instruction dispatched on an empty stack.
UnderflowQueue(op) == Queue(<<Inst(op, IF op = "StoreName" THEN "x" ELSE 0), NOP>>)

Underflows == {"StoreName", "BinaryAdd", "GetIter", "PopJumpIfFalse"}

Init ==
    /\ \/ \E p \in 0..MaxPrefix, c \in BOOLEAN, elifs \in 0..MaxElif,
             n0 \in 1..MaxBody, n1 \in 1..MaxBody, has_else \in BOOLEAN, s \in 0..1 :
             \E conds \in [1..elifs -> BOOLEAN] :
                /\ n0 = 1 \/ n1 = 1
                /\ (elifs = 0 /\ ~has_else) => n1 = 1
                /\ (elifs > 0 \/ has_else) => s = 1
                /\ input = IfProgram(p, BoolCond(c), conds, n0, n1, has_else, s)
       \/ input = IfExample
       \/ input = ExprExample
       \/ \E p \in 0..MaxPrefix, k \in 0..(MaxArgs + 1), body \in 1..Len(DefBodies) :
             input = DefProgram(p, k, body)
       \/ \E kind \in {"List", "Tuple", "Set"}, n \in 0..MaxIter, nested \in BOOLEAN :
             input = LiteralProgram(kind, n, nested)
       \/ \E n \in 0..MaxOps, r \in 0..1 :
             \E ops \in [1..n -> Arithmetic] : input = Line(ExprTokens(r, ops))
       \/ \E in_elif, c0, c1, c2 \in BOOLEAN :
             /\ ~in_elif => c0
             /\ input = NestedIfProgram(in_elif, c0, c1, c2)
       \/ \E c \in BOOLEAN, d \in BOOLEAN, k \in 0..2 :
             input = ElifWhileProgram(c, d, k)
       \/ \E p \in 0..MaxPrefix, limit \in 0..MaxIter, n \in 0..MaxBody :
             input = CounterProgram(p, limit, n)
       \/ \E p \in 0..MaxPrefix, w \in Wraps, k \in 0..MaxIter, n \in 0..MaxBody :
             /\ w # "none" => (n <= 1 /\ k <= 1)
             /\ input = InputProgram(p, w, k, n)
       \/ \E p \in 0..MaxPrefix, w \in Wraps, len \in 0..MaxIter, n \in 0..MaxBody :
             /\ w # "none" => (n <= 1 /\ len <= 1)
             /\ input = ListForProgram(p, w, len, n)
       \/ \E p \in 0..MaxPrefix, len \in 0..MaxIter, n \in 0..MaxBody :
             input = RangeForProgram(p, len, n)
       \/ \E argc \in 1..3, start \in 0..1, end \in 0..MaxIter, step \in 1..2 :
             /\ argc < 3 => step = 1
             /\ argc < 2 => start = 0
             /\ input = RangeProgram(argc, start, end, step)
       \/ \E start \in 0..1, end \in 0..1, step \in {-1, 0} :
             input = RangeProgram(3, start, end, step)
       \/ \E len \in 0..MaxIter, rebind \in BOOLEAN :
             input = RebindForProgram(len, rebind)
       \/ \E len \in 0..MaxIter, body \in 1..Len(ForBodies) :
             input = ForBodyProgram(len, ForBodies[body])
       \/ \E op \in Arithmetic \cup Comparisons,
             a \in 1..Len(Operands), b \in 1..Len(Operands) :
             input = BinaryProgram(op, a - 1, b - 1)
       \/ \E a \in {"x", "y"}, b \in {"x", "y"} : input = ListAddProgram(a, b)
       \/ \E t \in 1..Len(QuotedTexts) : input = QuotedLine(QuotedTexts[t])
       \/ \E c \in 1..Len(Bindable) : input = ReflexiveProgram(c)
       \/ \E shape \in {"binary", "neg", "negsum", "nested"},
             op \in Arithmetic \cup Comparisons,
             a \in 1..Len(NumLits), b \in 1..Len(NumLits), c \in 1..Len(NumLits) :
             /\ shape # "nested" => c = 1
             /\ shape = "nested" => (op \in {"Plus", "ForwardSlash"} /\ c <= 2)
             /\ shape \in {"neg", "negsum"} => op = "Plus"
             /\ shape = "neg" => b = 1
             /\ input = Expr(NumExpr(shape, op, a, b, c))
       \/ \E n \in 0..MaxIter, alias \in BOOLEAN : input = AliasProgram(n, alias)
       \/ \E f \in Faults : input = FaultProgram(f)
       \/ \E u \in Unsupported : input = UnsupportedProgram(u)
       \/ \E m \in (-MaxInt)..MaxInt, n \in (-MaxInt)..MaxInt : input = AddProgram(m, n)
       \/ \E argc \in 0..MaxArgs, len \in 0..MaxVals :
             \E vals \in [1..len -> 1..2] : input = FunctionQueue(argc, vals)
       \/ \E below \in 0..1, params \in 0..MaxArgs, argc \in 0..MaxArgs, len \in 0..1 :
             input = CallQueue(below, params, argc, [i \in 1..len |-> 5])
       \/ \E below \in 1..Len(Below), k \in 0..MaxVals :
             \E vals \in [1..k -> 1..Len(PrintVals)] : input = PrintQueue(below, vals)
       \/ \E k1 \in 0..2, k2 \in 0..2 : input = TwoQueues(k1, k2)
       \/ \E i \in FastSlots, v \in 1..2, loads \in 0..MaxVals :
             input = FastQueue(i, v, loads)
       \/ \E c \in BOOLEAN, d \in 0..2 : input = JumpIfTrueQueue(c, d)
       \/ \E op \in Underflows : input = UnderflowQueue(op)
    /\ overflow_checks \in BOOLEAN
    /\ instruction_queue = <<>>
    /\ instruction_counter = 0
    /\ local_stacks = <<<<>>>>
    /\ var_maps = <<<<>>>>
    /\ funcs = <<>>
    /\ error_state = FALSE
    /\ status = "new"
    /\ stdin = input.lines
    /\ stdout = <<>>
    /\ trace = <<>>
    /\ executed = 0
    /\ cache_vec = CacheNew
    /\ cache_ptr = 0
    /\ variables = <<>>
    /\ ctx = CompileCtxNew
    /\ issued = <<>>

Next ==
    \/ interpret_file
    \/ from_str
    \/ execute
    \/ execute_expr
    \/ process_expr
    \/ execute_again
    \/ Halt
    \/ ExecNOP
    \/ ExecLoadConst
    \/ ExecLoadName
    \/ ExecStoreName
    \/ ExecLoadFast
    \/ ExecStoreFast
    \/ ExecPushNull
    \/ ExecBuildList
    \/ ExecBuildTuple
    \/ ExecGetIter
    \/ ExecForIter
    \/ ExecBinaryAdd
    \/ ExecBinarySubtract
    \/ ExecBinaryMultiply
    \/ ExecBinaryDivide
    \/ ExecUnaryNegative
    \/ ExecCallFunction
    \/ ExecCallInstrinsic1
    \/ ExecReturnValue
    \/ ExecPopJumpIfFalse
    \/ ExecPopJumpIfTrue
    \/ ExecJumpForward
    \/ ExecJumpBackward
    \/ ExecCompareOp
    \/ ExecMakeFunction
    \/ ExecNotImplemented

Spec == Init /\ [][Next]_vars

-----------------------------------------------------------------------------
(***************************************************************************)
(* The pools of a CompileCtx, which no function of the compiler uses yet:  *)
(* a specification of its own.  issued records every call, its argument    *)
(* and the index it returned.                                              *)
(***************************************************************************)
\* The constants and names the calls are made with.
ConstArgs ==
    <<IntObj(0), IntObj(1), BoolObj(TRUE), BoolObj(FALSE), FloatObj(1, 1), NaN,
      StrObj(<<"a">>), NoneObj>>

NameArgs == <<"a", "b">>

\* Iterator::position on the entries the test holds of (hits).
Position(hits) ==
    IF hits = {} THEN -1 ELSE (CHOOSE i \in hits : \A j \in hits : i <= j) - 1

add_const(c, obj) ==
    LET found == Position({i \in 1..Len(c.consts) : ObjEq(c.consts[i], obj)})
    IN  IF found >= 0 THEN [ctx |-> c, i |-> found]
        ELSE [ctx |-> [c EXCEPT !.consts = Append(@, obj)], i |-> Len(c.consts)]

add_name(c, name) ==
    LET found == Position({i \in 1..Len(c.names) : c.names[i] = name})
    IN  IF found >= 0 THEN [ctx |-> c, i |-> found]
        ELSE [ctx |-> [c EXCEPT !.names = Append(@, name)], i |-> Len(c.names)]

AddConst ==
    /\ Len(issued) < MaxCalls
    /\ \E a \in 1..Len(ConstArgs) :
          LET r == add_const(ctx, ConstArgs[a])
          IN  /\ ctx' = r.ctx
              /\ issued' = Append(issued, [pool |-> "consts", arg |-> a, i |-> r.i])
    /\ UNCHANGED vm_vars

AddName ==
    /\ Len(issued) < MaxCalls
    /\ \E a \in 1..Len(NameArgs) :
          LET r == add_name(ctx, NameArgs[a])
          IN  /\ ctx' = r.ctx
              /\ issued' = Append(issued, [pool |-> "names", arg |-> a, i |-> r.i])
    /\ UNCHANGED vm_vars

CtxInit ==
    /\ ctx = CompileCtxNew
    /\ issued = <<>>
    /\ input = Queue(<<>>)
    /\ overflow_checks = FALSE
    /\ instruction_queue = <<>>
    /\ instruction_counter = 0
    /\ local_stacks = <<<<>>>>
    /\ var_maps = <<<<>>>>
    /\ funcs = <<>>
    /\ error_state = FALSE
    /\ status = "new"
    /\ stdin = <<>>
    /\ stdout = <<>>
    /\ trace = <<>>
    /\ executed = 0
    /\ cache_vec = CacheNew
    /\ cache_ptr = 0
    /\ variables = <<>>

CtxNext ==
    \/ AddConst
    \/ AddName

CtxSpec == CtxInit /\ [][CtxNext]_vars

-----------------------------------------------------------------------------
(***************************************************************************)
(* Where the compiler puts each statement.  A statement e whose code       *)
(* starts at queue index b is written [e |-> e, at |-> b]; the indices     *)
(* follow from the lengths of the code in front of it, as from_expr lays   *)
(* the constructs out.                                                     *)
(***************************************************************************)
CodeLen(exprs) == Len(CompileAll(exprs, <<>>))

\* The instruction at a 0-based queue index.
At(i) == instruction_queue[i + 1]

IsArm(part) == IsKeyword(part, {"Elif", "Else"})

\* The statements of the main if and the other arms, as from_expr tells
\* them apart in what split_if_elif_else returns.
MainPart(e) == SelectSeq(split_if_elif_else(e.body), LAMBDA part : ~IsArm(part))

ArmParts(e) == SelectSeq(split_if_elif_else(e.body), LAMBDA part : IsArm(part))

IsElifArm(part) == part.kw = "Elif" /\ part.conds # <<>>

\* The code of one arm: condition, jump, body, jump; an else is its body.
BlockLen(part) ==
    IF IsElifArm(part) THEN CodeLen(part.conds) + CodeLen(part.body) + 2
    ELSE CodeLen(part.body)

RECURSIVE BlocksLen(_)
BlocksLen(parts) ==
    IF parts = <<>> THEN 0 ELSE BlockLen(Head(parts)) + BlocksLen(Tail(parts))

\* The conditional jump of an if, while or elif whose code starts at b.
HeadAt(e, b) == b + CodeLen(e.conds)

\* The JumpForward that ends the main if of a chain at b.
MainJumpAt(e, b) == HeadAt(e, b) + 1 + CodeLen(MainPart(e))

\* The first index of arm k of the chain at b, k = 1 the first elif or
\* else; k = Len(ArmParts(e)) + 1 gives the index after the chain.
ArmStart(e, b, k) == MainJumpAt(e, b) + 1 + BlocksLen(SubSeq(ArmParts(e), 1, k - 1))

ChainEnd(e, b) == ArmStart(e, b, Len(ArmParts(e)) + 1)

\* The ForIter of a for statement at b: the iterable's code and GetIter
\* come first.
ForIterAt(e, b) == b + CodeLen(<<e.conds[2]>>) + 1

RECURSIVE Placed(_, _), PlacedIn(_, _)
PlacedIn(exprs, base) ==
    IF exprs = <<>> THEN <<>>
    ELSE Placed(Head(exprs), base)
             \o PlacedIn(Tail(exprs), base + CodeLen(<<Head(exprs)>>))

Placed(e, b) ==
    <<[e |-> e, at |-> b]>> \o
    (IF IsKeyword(e, {"While"}) THEN PlacedIn(e.body, HeadAt(e, b) + 1)
     ELSE IF IsKeyword(e, {"For"}) THEN PlacedIn(e.body, ForIterAt(e, b) + 2)
     ELSE IF IsKeyword(e, {"If"})
     THEN LET arms == ArmParts(e)
          IN  PlacedIn(MainPart(e), HeadAt(e, b) + 1)
                  \o Flatten([k \in 1..Len(arms) |->
                         PlacedIn(arms[k].body,
                                  ArmStart(e, b, k)
                                      + (IF IsElifArm(arms[k])
                                         THEN CodeLen(arms[k].conds) + 1 ELSE 0))])
     ELSE <<>>)

\* The file is compiled and its queue is the one the machine runs.
Compiled == input.kind = "file" /\ instruction_queue # <<>>

\* Every statement of the file with the index of its code.
Statements == PlacedIn(input.parsed, 0)

StatementsOf(kw) == SelectSeq(Statements, LAMBDA s : IsKeyword(s.e, {kw}))

IsChain(e) == IsKeyword(e, {"If"}) /\ ArmParts(e) # <<>>

Chains == SelectSeq(Statements, LAMBDA s : IsChain(s.e))

Jumps == {"JumpForward", "JumpBackward", "PopJumpIfFalse", "PopJumpIfTrue", "ForIter"}

\* The top of the current stack, for a jump that pops or reads it.
Top == Last(Last(local_stacks))

HasTop == local_stacks # <<>> /\ Last(local_stacks) # <<>>
-----------------------------------------------------------------------------
\* C1: dispatching a jump at index i with operand d leaves the counter at
\* i + 1 + d for JumpForward, for PopJumpIfFalse on a falsy value, for
\* PopJumpIfTrue on a truthy value and for ForIter on an exhausted iterator,
\* at i + 1 - d for JumpBackward, and at i + 1 for a conditional jump that
\* is not taken.
C1_JumpTarget ==
    [][(/\ status = "running"
        /\ InQueue(instruction_counter)
        /\ Fetched.op \in Jumps
        /\ Fetched.op \in {"PopJumpIfFalse", "PopJumpIfTrue"} => (HasTop /\ HasBool(Top))
        /\ Fetched.op = "ForIter" => (HasTop /\ Top.k = "Iter"))
       => LET i == instruction_counter
              d == Fetched.arg
              taken == CASE Fetched.op = "PopJumpIfFalse" -> ~ObjBool(Top)
                         [] Fetched.op = "PopJumpIfTrue" -> ObjBool(Top)
                         [] Fetched.op = "ForIter" -> Top.v.index >= Len(Top.v.items)
                         [] OTHER -> TRUE
          IN  /\ status' = "running"
              /\ instruction_counter' =
                    IF ~taken THEN i + 1
                    ELSE IF Fetched.op = "JumpBackward" THEN i + 1 - d
                    ELSE i + 1 + d]_vars

\* C2: in the code of every while statement, wherever it is compiled, the
\* PopJumpIfFalse that ends the condition resumes, when taken, right after
\* the loop's JumpBackward, and the JumpBackward resumes at the first
\* instruction of the condition.
C2_WhileJumps ==
    Compiled =>
        LET stmts == StatementsOf("While")
        IN  \A n \in 1..Len(stmts) :
            LET s == stmts[n]
                e == s.e
                b == s.at
                head == HeadAt(e, b)
                back == head + 1 + CodeLen(e.body)
            IN  /\ At(head).op = "PopJumpIfFalse"
                /\ At(back).op = "JumpBackward"
                /\ head + 1 + At(head).arg = back + 1
                /\ back + 1 - At(back).arg = b

\* A run has gone through a while loop that sits inside the body of another
\* while loop, behind other code.
C2_Witness ==
    /\ Compiled
    /\ status = "halted"
    /\ LET whiles == StatementsOf("While")
       IN  \E n, o \in 1..Len(whiles) :
          LET inner == whiles[n]
              outer == whiles[o]
          IN  /\ outer.at > 0
              /\ inner.at > HeadAt(outer.e, outer.at)
              /\ inner.at < HeadAt(outer.e, outer.at) + 1 + CodeLen(outer.e.body)
              /\ CodeLen(inner.e.body) > 1
              /\ \E j \in 1..Len(trace) : trace[j] = HeadAt(inner.e, inner.at)

\* C3: in the code of every for statement, ForIter resumes, when the
\* iterator is exhausted, right after the loop's JumpBackward, and the
\* JumpBackward resumes at the ForIter itself, neither at GetIter nor at
\* the StoreName behind it.
C3_ForJumps ==
    Compiled =>
        LET stmts == StatementsOf("For")
        IN  \A n \in 1..Len(stmts) :
            LET s == stmts[n]
                e == s.e
                b == s.at
                iter == ForIterAt(e, b)
                back == iter + 2 + CodeLen(e.body)
            IN  /\ At(iter - 1).op = "GetIter"
                /\ At(iter).op = "ForIter"
                /\ At(iter + 1).op = "StoreName"
                /\ At(back).op = "JumpBackward"
                /\ iter + 1 + At(iter).arg = back + 1
                /\ back + 1 - At(back).arg = iter

\* A run has left, through its exhausted ForIter, a for loop that sits
\* inside the body of another for loop.
C3_Witness ==
    /\ Compiled
    /\ status = "halted"
    /\ LET fors == StatementsOf("For")
       IN  \E n, o \in 1..Len(fors) :
          LET inner == fors[n]
              outer == fors[o]
              back == ForIterAt(inner.e, inner.at) + 2 + CodeLen(inner.e.body)
          IN  /\ inner.at > ForIterAt(outer.e, outer.at)
              /\ CodeLen(inner.e.body) > 1
              /\ \E j \in 1..(Len(trace) - 1) :
                    /\ trace[j] = ForIterAt(inner.e, inner.at)
                    /\ trace[j + 1] = back + 1
              /\ \E j \in 1..(Len(trace) - 1) :
                    /\ trace[j] = back
                    /\ trace[j + 1] = ForIterAt(inner.e, inner.at)

\* C4: in the code of every if/elif/else chain, the conditional jump of
\* each arm lands, on a falsy condition, on the first instruction of the
\* next arm, or right after the chain for the last arm, and the JumpForward
\* that ends every arm followed by another arm lands right after the chain.
C4_ChainJumps ==
    Compiled =>
        LET stmts == Chains
        IN  \A n \in 1..Len(stmts) :
            LET s == stmts[n]
                e == s.e
                b == s.at
                arms == ArmParts(e)
                start == [k \in 1..(Len(arms) + 1) |-> ArmStart(e, b, k)]
                end == start[Len(arms) + 1]
                main == HeadAt(e, b)
            IN  /\ At(main).op = "PopJumpIfFalse"
                /\ main + 1 + At(main).arg = start[1]
                /\ At(start[1] - 1).op = "JumpForward"
                /\ start[1] + At(start[1] - 1).arg = end
                /\ \A k \in 1..Len(arms) :
                      IsElifArm(arms[k]) =>
                          LET head == HeadAt(arms[k], start[k])
                              jump == head + 1 + CodeLen(arms[k].body)
                          IN  /\ At(head).op = "PopJumpIfFalse"
                              /\ head + 1 + At(head).arg = start[k + 1]
                              /\ At(jump).op = "JumpForward"
                              /\ k < Len(arms) => jump + 1 + At(jump).arg = end

\* A run has gone through a chain of an if, two elif arms and an else that
\* is compiled behind other code, with code after it.
C4_Witness ==
    /\ Compiled
    /\ status = "halted"
    /\ LET chains == Chains
       IN  \E n \in 1..Len(chains) :
              LET s == chains[n]
              IN  /\ s.at > 0
                  /\ Len(ArmParts(s.e)) = 3
                  /\ ~IsElifArm(ArmParts(s.e)[3])
                  /\ ChainEnd(s.e, s.at) < Len(instruction_queue)
                  /\ \E j \in 1..Len(trace) : trace[j] = ArmStart(s.e, s.at, 3)

-----------------------------------------------------------------------------
(***************************************************************************)
(* The statements of a file as they are written, for the properties that   *)
(* speak of what a program does.                                           *)
(***************************************************************************)
\* The index of the code of the i-th statement of the file.
OffsetOf(i) == CodeLen(SubSeq(input.parsed, 1, i - 1))

\* The positions of the elif and else lines in the body of an if.
MarkerIdx(body) ==
    SelectSeq([i \in 1..Len(body) |-> i], LAMBDA i : IsArm(body[i]))

\* The statements written under arm k of a chain, k = 0 the if itself.
ArmBody(body, k) ==
    LET m == MarkerIdx(body)
    IN  SubSeq(body, IF k = 0 THEN 1 ELSE m[k] + 1,
                     IF k = Len(m) THEN Len(body) ELSE m[k + 1] - 1)

\* The condition of arm k; an else has none.
ArmCond(e, k) == IF k = 0 THEN e.conds ELSE e.body[MarkerIdx(e.body)[k]].conds

\* Every condition of the chain is the keyword True or False.
ConstChain(e) ==
    \A k \in 0..Len(MarkerIdx(e.body)) :
        \A j \in 1..Len(ArmCond(e, k)) : IsKeyword(ArmCond(e, k)[j], {"True", "False"})

\* The first arm whose condition is true, the else when there is none and
\* -1 when no arm is to run.
Chosen(e) ==
    LET ks == {k \in 0..Len(MarkerIdx(e.body)) :
                  \/ Len(ArmCond(e, k)) = 0
                  \/ IsKeyword(ArmCond(e, k)[1], {"True"})}
    IN  IF ks = {} THEN -1 ELSE CHOOSE k \in ks : \A j \in ks : k <= j

\* The values of the literals printed anywhere inside the statements.
RECURSIVE Literals(_)
Literals(stmts) ==
    UNION {LET e == stmts[i]
           IN  IF e.t = "Call" /\ e.name = "print"
               THEN {from_atom(e.args[j].text) :
                        j \in {j \in 1..Len(e.args) : e.args[j].t = "Atom"}}
               ELSE IF e.t = "Keyword" THEN Literals(e.body)
               ELSE {} : i \in 1..Len(stmts)}

\* The statements, and those inside them, are prints of literals, pass and
\* if/elif/else.
RECURSIVE PrintsOnly(_)
PrintsOnly(stmts) ==
    \A i \in 1..Len(stmts) :
        LET e == stmts[i]
        IN  \/ /\ e.t = "Call"
               /\ e.name = "print"
               /\ \A j \in 1..Len(e.args) : e.args[j].t = "Atom"
            \/ IsKeyword(e, {"Pass"})
            \/ IsKeyword(e, {"If", "Elif", "Else"}) /\ PrintsOnly(e.body)

InTrace(i) == \E j \in 1..Len(trace) : trace[j] = i

\* A statement that compiles to straight-line code.
IsPlain(e) == e.t \in {"Call", "Operation"} \/ IsKeyword(e, {"Pass"})

\* Assignments followed by a while loop with a straight-line body.
EndsInPlainWhile ==
    /\ Compiled
    /\ IsKeyword(Last(input.parsed), {"While"})
    /\ \A j \in 1..Len(Last(input.parsed).body) : IsPlain(Last(input.parsed).body[j])
    /\ \A i \in 1..(Len(input.parsed) - 1) : input.parsed[i].t = "Operation"

ExceptionOnStack ==
    \E f \in 1..Len(local_stacks) :
        \E j \in 1..Len(local_stacks[f]) : local_stacks[f][j].k = "Except"
-----------------------------------------------------------------------------
\* C5: a statement `if` with no elif and no else compiles to the code of
\* its condition, one PopJumpIfFalse(n) and exactly the n instructions of
\* its body, nothing else; `x = 2 / if x: print(x)` compiles to
\* LoadConst(2), StoreName(x), LoadName(x), PopJumpIfFalse(3), PushNull,
\* LoadName(x), CallInstrinsic1(Print).
C5_SimpleIfLayout ==
    Compiled =>
        /\ \A i \in 1..Len(input.parsed) :
              LET e == input.parsed[i]
                  b == OffsetOf(i)
                  cond == CompileAll(e.conds, <<>>)
                  body == CompileAll(e.body, <<>>)
                  end == b + Len(cond) + 1 + Len(body)
              IN  (IsKeyword(e, {"If"}) /\ MarkerIdx(e.body) = <<>>) =>
                      /\ OffsetOf(i + 1) = end
                      /\ end <= Len(instruction_queue)
                      /\ SubSeq(instruction_queue, b + 1, end)
                            = cond \o <<PopJumpIfFalse(Len(body))>> \o body
        /\ input = IfExample =>
              instruction_queue =
                  <<LoadConst(IntObj(2)), StoreName("x"), LoadName("x"),
                    PopJumpIfFalse(3), PushNull, LoadName("x"),
                    CallInstrinsic1("Print")>>

\* C6: running a chain runs the body of exactly one arm, the first whose
\* condition is true, the else when no condition is true, and none when
\* there is no else either; the conditions of the arms behind the chosen
\* one are not evaluated and the run goes on at the first instruction after
\* the chain.  Stated for the chains whose conditions are True or False and
\* whose arms print literals, where what has run shows in what is printed.
C6_OneArmRuns ==
    Compiled =>
        \A i \in 1..Len(input.parsed) :
            LET e == input.parsed[i]
                b == OffsetOf(i)
                end == ChainEnd(e, b)
                c == Chosen(e)
                ran == IF c = -1 THEN {} ELSE Literals(ArmBody(e.body, c))
                after == Literals(SubSeq(input.parsed, i + 1, Len(input.parsed)))
            IN  (IsChain(e) /\ ConstChain(e) /\ PrintsOnly(e.body)) =>
                    /\ status # "panic"
                    /\ \A n \in 1..Len(stdout) : stdout[n][1] \in ran \cup after
                    /\ \A k \in 1..Len(ArmParts(e)) :
                          (c # -1 /\ k > c /\ ArmStart(e, b, k) < ArmStart(e, b, k + 1))
                              => ~InTrace(ArmStart(e, b, k))
                    /\ \A j \in 1..(Len(trace) - 1) :
                          (trace[j] >= b /\ trace[j] < end /\ trace[j + 1] >= end)
                              => trace[j + 1] = end
                    /\ status = "halted" =>
                          /\ InTrace(HeadAt(e, b))
                          /\ c = 0 => InTrace(HeadAt(e, b) + 1)
                          /\ c > 0 => InTrace(ArmStart(e, b, c))

\* C7: a while loop whose condition is truthy k times and then falsy runs
\* its body exactly k times, then pushes one None and the run goes on
\* behind the loop; `x = 0 / while x < 3: print(x) / x += 1` prints 0, 1, 2
\* and halts with the counter at the end of the queue.
C7_WhileRuns ==
    EndsInPlainWhile =>
        LET e == Last(input.parsed)
            b == OffsetOf(Len(input.parsed))
            head == HeadAt(e, b)
            back == head + 1 + CodeLen(e.body)
            k == Cardinality({j \in 1..Len(trace) : trace[j] = head + 1})
            round == [j \in 1..(back - b + 1) |-> b + j - 1]
            last == [j \in 1..(head - b + 1) |-> b + j - 1]
            loop == SelectSeq(trace, LAMBDA i : i >= b /\ i <= back)
        IN  /\ status \notin {"panic", "hang"}
            /\ status = "halted" =>
                  /\ loop = Flatten(Repeat(round, k)) \o last
                  /\ Last(trace) = back + 1
                  /\ local_stacks = <<<<NoneObj>>>>
                  /\ instruction_counter = Len(instruction_queue)
            /\ (status = "halted" /\ input = CounterProgram(0, 3, 1)) =>
                  stdout = <<<<IntObj(0)>>, <<IntObj(1)>>, <<IntObj(2)>>>>

\* C8: an instruction that produces an Exception value aborts the run in
\* the check that follows it: no instruction is dispatched while an
\* Exception value is on an operand stack.
C8_NoDispatchOnException ==
    (status = "running" /\ InQueue(instruction_counter)) => ~ExceptionOnStack

\* C9: `def add(a, b): return a + b / result = add(m, n)` halts normally
\* with the global result bound to Int(m + n).
C9_AddResult ==
    \A m \in (-MaxInt)..MaxInt, n \in (-MaxInt)..MaxInt :
        input = AddProgram(m, n) =>
            /\ status \notin {"panic", "hang"}
            /\ status = "halted" =>
                  /\ "result" \in DOMAIN var_maps[1]
                  /\ var_maps[1]["result"] = IntObj(m + n)

\* C10: ReturnValue passes to the caller the value on top of the returning
\* frame's stack, Null when the frame holds no value, whatever lies
\* beneath the top.
C10_ReturnsTop ==
    [][(/\ Ready("ReturnValue")
        /\ Len(local_stacks) >= 2
        /\ Last(local_stacks) # <<>>
        /\ Head(Last(local_stacks)).k = "Int")
       => LET values == Tail(Last(local_stacks))
              caller == local_stacks[Len(local_stacks) - 1]
          IN  /\ status' = "running"
              /\ local_stacks' =
                    Append(SubSeq(local_stacks, 1, Len(local_stacks) - 2),
                           Append(caller,
                                  IF values = <<>> THEN NullObj ELSE Last(values)))]_vars

-----------------------------------------------------------------------------
(***************************************************************************)
(* Calls.                                                                  *)
(***************************************************************************)
\* The position in trace of the last CallFunction dispatched, 0 when none.
LastCall ==
    LET calls == {j \in 1..Len(trace) : At(trace[j]).op = "CallFunction"}
    IN  IF calls = {} THEN 0 ELSE CHOOSE j \in calls : \A n \in calls : n <= j

\* What an instruction of a function body takes from the stack (-1) or
\* adds to it (+1), for the instructions the bodies here are made of.
Effect(op) ==
    CASE op = "LoadConst" -> 1
      [] op = "StoreName" -> -1
      [] OTHER -> 0

RECURSIVE Balance(_)
Balance(indices) ==
    IF indices = <<>> THEN 0
    ELSE Effect(At(Head(indices)).op) + Balance(Tail(indices))

\* Since the last call the body has not popped more values than the
\* arguments of the call plus what it pushed itself.
BodyKeepsFrame ==
    /\ LastCall > 0
    /\ \A n \in (LastCall + 1)..Len(trace) :
          At(trace[LastCall]).arg + Balance(SubSeq(trace, LastCall + 1, n)) >= 0

\* The operand stacks below the current one.
Callers(stacks) == SubSeq(stacks, 1, Len(stacks) - 1)

\* C11: a CallFunction creates one operand stack and takes the arguments
\* and the callee off the caller's stack; while the callee runs the stacks
\* below its own are not touched; the matching ReturnValue, when the body
\* has not popped more than its arguments plus what it pushed, destroys
\* that stack, adds exactly one value to the caller's stack and resumes at
\* the instruction after the CallFunction.
C11_CallReturn ==
    [][LET n == Len(local_stacks)
       IN  /\ (/\ Ready("CallFunction")
               /\ Len(Last(local_stacks)) >= Fetched.arg + 1
               /\ ObjStr(Top) \in DOMAIN funcs)
              => /\ status' = "running"
                 /\ Len(local_stacks') = n + 1
                 /\ Callers(local_stacks') =
                       [local_stacks EXCEPT
                           ![n] = SubSeq(@, 1, Len(@) - Fetched.arg - 1)]
           /\ (/\ status = "running"
               /\ InQueue(instruction_counter)
               /\ Fetched.op \notin {"CallFunction", "ReturnValue"}
               /\ n >= 2)
              => Callers(local_stacks') = Callers(local_stacks)
           /\ (Ready("ReturnValue") /\ n >= 2 /\ BodyKeepsFrame)
              => /\ status' = "running"
                 /\ Len(local_stacks') = n - 1
                 /\ Callers(local_stacks') = Callers(Callers(local_stacks))
                 /\ Len(local_stacks'[n - 1]) = Len(local_stacks[n - 1]) + 1
                 /\ Front(local_stacks'[n - 1]) = local_stacks[n - 1]
                 /\ Last(local_stacks'[n - 1]).k # "Except"
                 /\ instruction_counter' = trace[LastCall] + 1]_vars

\* A function of one parameter was called with one argument over a value
\* of the caller, has returned, and the run has ended with that value alone
\* on the stack.
C11_Witness ==
    /\ status = "halted"
    /\ input.kind = "queue"
    /\ executed = 1
    /\ LastCall > 0
    /\ At(trace[LastCall]).arg = 1
    /\ \E j \in (LastCall + 1)..Len(trace) : At(trace[j]).op = "ReturnValue"
    /\ local_stacks = <<<<StrObj(<<"b">>)>>>>
    /\ "r" \in DOMAIN var_maps[1]
    /\ "p1" \in DOMAIN var_maps[1]

\* C12: calling a function with fewer arguments than it has parameters
\* does not raise: the call goes through, the parameters that got an
\* argument hold it, the others hold Null, and the function returns to the
\* instruction after the call.
C12_MissingArguments ==
    \A below \in 0..1, params \in 1..MaxArgs, argc \in 0..MaxArgs, len \in 0..1 :
        (argc < params /\ input = CallQueue(below, params, argc, [i \in 1..len |-> 5]))
            => /\ status # "panic"
               /\ status = "halted" =>
                     /\ \A k \in 1..params :
                           /\ ParamNames[k] \in DOMAIN var_maps[1]
                           /\ var_maps[1][ParamNames[k]] =
                                 IF k <= argc THEN IntObj(k) ELSE NullObj
                     /\ \E j \in 1..(Len(trace) - 1) :
                           /\ At(trace[j]).op = "ReturnValue"
                           /\ trace[j + 1] = trace[LastCall] + 1

-----------------------------------------------------------------------------
(***************************************************************************)
(* Arithmetic and comparison of values.                                    *)
(***************************************************************************)
\* The two operands a binary instruction is about to pop, and the value the
\* step leaves on top of the same stack.
Lhs == Last(local_stacks)[Len(Last(local_stacks)) - 1]

Rhs == Last(Last(local_stacks))

TwoOperands == local_stacks # <<>> /\ Len(Last(local_stacks)) >= 2

Result == Last(Last(local_stacks))'

\* The step took the two operands and left one value in their place, and
\* the run goes on.
OneForTwo ==
    /\ status' = "running"
    /\ Len(local_stacks') = Len(local_stacks)
    /\ Len(Last(local_stacks')) = Len(Last(local_stacks)) - 1

IsFinite(o) == o.k # "Float" \/ o.v[2] # 0

\* C13: `/` on Int and Float operands gives the ZeroDivisionError value
\* when the divisor is Int 0 or Float 0.0, whatever the dividend, and
\* otherwise a Float, the quotient of the two values (Int / Int included:
\* 5 / 2 is Float 2.5); the step never crashes.
C13_Division ==
    [][(/\ Ready("BinaryDivide")
        /\ TwoOperands
        /\ Lhs.k \in {"Int", "Float"}
        /\ Rhs.k \in {"Int", "Float"})
       => /\ OneForTwo
          /\ Rhs \in {IntObj(0), FloatObj(0, 1)} => Result = ExceptObj("ZeroDivisionError")
          /\ Rhs \notin {IntObj(0), FloatObj(0, 1)} =>
                /\ Result.k = "Float"
                /\ (IsFinite(Lhs) /\ IsFinite(Rhs)) =>
                      /\ Result.v[2] > 0
                      /\ Result.v[1] * NumOf(Rhs)[1] * NumOf(Lhs)[2]
                            = NumOf(Lhs)[1] * NumOf(Rhs)[2] * Result.v[2]
          /\ (Lhs = IntObj(5) /\ Rhs = IntObj(2)) => Result = FloatObj(5, 2)]_vars

\* 5 / 2 has run to its end and left Float 2.5 in x.
C13_Witness ==
    /\ status = "halted"
    /\ input = BinaryProgram("ForwardSlash", 4, 3)
    /\ "x" \in DOMAIN var_maps[1]
    /\ var_maps[1]["x"] = FloatObj(5, 2)

BinaryOps == {"BinaryAdd", "BinarySubtract", "BinaryMultiply", "BinaryDivide"}

\* The function of pyrs_obj.rs a binary instruction applies.
Apply(op, lhs, rhs) ==
    CASE op = "BinaryAdd" -> ObjAdd(lhs, rhs)
      [] op = "BinarySubtract" -> ObjSub(lhs, rhs)
      [] op = "BinaryMultiply" -> ObjMul(lhs, rhs)
      [] op = "BinaryDivide" -> ObjDiv(lhs, rhs)

\* Int::to_f64
ToFloat(o) == IF o.k = "Int" THEN FloatObj(o.v, 1) ELSE o

\* C14: + - * / on (Int, Float) and on (Float, Int) leave the Float that the
\* same operator gives on two Floats once the Int is converted to Float;
\* the result is never an Int, and an error only for a zero divisor.
C14_MixedArithmetic ==
    [][(/\ status = "running"
        /\ InQueue(instruction_counter)
        /\ Fetched.op \in BinaryOps
        /\ TwoOperands
        /\ <<Lhs.k, Rhs.k>> \in {<<"Int", "Float">>, <<"Float", "Int">>})
       => /\ OneForTwo
          /\ Result = Apply(Fetched.op, ToFloat(Lhs), ToFloat(Rhs))
          /\ IF Fetched.op = "BinaryDivide" /\ Rhs \in {IntObj(0), FloatObj(0, 1)}
             THEN Result = ExceptObj("ZeroDivisionError")
             ELSE Result.k = "Float" /\ ~error_state']_vars

\* 1 - 2.5 has run to its end and left Float -1.5 in x.
C14_Witness ==
    /\ status = "halted"
    /\ input = BinaryProgram("Minus", 1, 7)
    /\ "x" \in DOMAIN var_maps[1]
    /\ var_maps[1]["x"] = FloatObj(-3, 2)

\* A Bool read as the Int 0 or 1.
BoolAsInt(o) == IF o.k = "Bool" THEN IntObj(IF o.v THEN 1 ELSE 0) ELSE o

\* C15: in + - * / a Bool operand on either side behaves as Int 0 or 1: the
\* step leaves what the same operation leaves with the Bool replaced by
\* that Int.
C15_BoolArithmetic ==
    [][(/\ status = "running"
        /\ InQueue(instruction_counter)
        /\ Fetched.op \in BinaryOps
        /\ TwoOperands
        /\ IsNumKind(Lhs) /\ IsNumKind(Rhs)
        /\ "Bool" \in {Lhs.k, Rhs.k})
       => /\ OneForTwo
          /\ Result = Apply(Fetched.op, BoolAsInt(Lhs), BoolAsInt(Rhs))]_vars

\* The order of two fractions n/d, d >= 0: -1, 0 or 1.
Order(a, b) ==
    IF a[1] * b[2] < b[1] * a[2] THEN -1
    ELSE IF a[1] * b[2] > b[1] * a[2] THEN 1
    ELSE 0

\* What a comparison says of two values whose order is c.
Says(op, c) ==
    CASE op = "Eq" -> c = 0
      [] op = "Neq" -> c # 0
      [] op = "LessThan" -> c < 0
      [] op = "GreaterThan" -> c > 0
      [] op = "LessEq" -> c <= 0
      [] op = "GreaterEq" -> c >= 0

BoolCount(bs) == Cardinality({i \in 1..Len(bs) : bs[i]})

\* A comparison of two numeric operands, taken from the set given, leaves
\* the Bool that the order of their values gives, and exactly one of <, ==
\* and > holds of the two.
NumericCompare(operands_ok) ==
    (/\ Ready("CompareOp")
     /\ Fetched.arg \in Comparisons
     /\ TwoOperands
     /\ IsNumKind(Lhs) /\ IsNumKind(Rhs)
     /\ operands_ok)
    => /\ OneForTwo
       /\ Result = BoolObj(Says(Fetched.arg, Order(NumOf(Lhs), NumOf(Rhs))))
       /\ BoolCount(<<ObjLt(Lhs, Rhs), ObjEq(Lhs, Rhs), ObjGt(Lhs, Rhs)>>) = 1

Unrelated(a, b) == a.k # b.k /\ ~(IsNumKind(a) /\ IsNumKind(b))

\* C17: a comparison of two values of unrelated kinds raises no error and
\* leaves a Bool: False for ==, True for !=, False for <, >, <= and >=.
C17_UnrelatedCompare ==
    [][(/\ Ready("CompareOp")
        /\ Fetched.arg \in Comparisons
        /\ TwoOperands
        /\ Unrelated(Lhs, Rhs))
       => /\ OneForTwo
          /\ ~error_state'
          /\ Result = BoolObj(Fetched.arg = "Neq")]_vars

\* "a" != 0 has run to its end and left True in x.
C17_Witness ==
    /\ status = "halted"
    /\ input = BinaryProgram("Neq", 2, 0)
    /\ "x" \in DOMAIN var_maps[1]
    /\ var_maps[1]["x"] = BoolObj(TRUE)

\* The step left a list with the items given, under a Mutex of its own.
NewList(items) ==
    /\ Result.k = "List"
    /\ Result.v = items
    /\ Result.id \notin {Lhs.id, Rhs.id}

\* The handler left the TypeError value on the stack and did not crash.
TypeErrorResult(m) ==
    /\ m.outcome = "ok"
    /\ m.error_state
    /\ Last(get_local_stack(m)) = ExceptObj("TypeError")

\* The sum of a List on the left, taken from the pairs given.
ListAdd(operands_ok) ==
    (/\ Ready("BinaryAdd")
     /\ TwoOperands
     /\ Lhs.k = "List"
     /\ operands_ok)
    => IF Rhs.k = "List"
       THEN /\ OneForTwo
            /\ NewList(Lhs.v \o Rhs.v)
            /\ var_maps' = var_maps
       ELSE /\ status' # "hang"
            /\ TypeErrorResult(binary_add(Self))

\* C18: List + List leaves a new list, the items of the left operand and
\* then those of the right, and the operands are as they were; List + a
\* value of another kind leaves the TypeError value and does not crash.
C18_ListConcat == [][ListAdd(TRUE)]_vars

-----------------------------------------------------------------------------
(***************************************************************************)
(* Arithmetic lines.                                                       *)
(***************************************************************************)
MaxOf(S) == CHOOSE x \in S : \A y \in S : y <= x

\* The value of a line of literals and operators by the rules of
\* arithmetic: the last + or - splits it, the last * or / when it has
\* neither; the value of a literal is the Int it writes.
RECURSIVE ValueOf(_)
ValueOf(tokens) ==
    IF Len(tokens) = 1 THEN IntObj(DigitsVal(tokens[1].v))
    ELSE LET at == {i \in 1..Len(tokens) : tokens[i].t = "Op"}
             low == {i \in at : tokens[i].v[1] \in {"Plus", "Minus"}}
             p == IF low # {} THEN MaxOf(low) ELSE MaxOf(at)
         IN  Apply(BinaryInst(tokens[p].v[1]).op,
                   ValueOf(SubSeq(tokens, 1, p - 1)),
                   ValueOf(SubSeq(tokens, p + 1, Len(tokens))))

-----------------------------------------------------------------------------
(***************************************************************************)
(* Container literals.                                                     *)
(***************************************************************************)
BuildOf(kind) ==
    CASE kind = "List" -> "BuildList"
      [] kind = "Tuple" -> "BuildTuple"
      [] kind = "Set" -> "BuildSet"

\* The code of the elements 1 .. n in source order, then the one build
\* instruction carrying n.
LiteralCode(kind, n) ==
    [i \in 1..n |-> LoadConst(IntObj(i))] \o <<Inst(BuildOf(kind), n)>>

\* The compiled form of every literal of the kinds given, and the step of
\* its build instruction on a stack that holds the N values.
LiteralBuilt(kinds) ==
    /\ \A kind \in kinds, n \in 0..MaxIter, nested \in BOOLEAN :
          (status = "running" /\ input = LiteralProgram(kind, n, nested)) =>
              instruction_queue =
                  IF nested
                  THEN <<StrConst("b")>> \o LiteralCode(kind, n)
                           \o <<Inst("BuildList", 2), StoreName("c")>>
                  ELSE LiteralCode(kind, n) \o <<StoreName("c")>>
    /\ (/\ status = "running"
        /\ InQueue(instruction_counter)
        /\ Fetched.op \in {BuildOf(kind) : kind \in kinds}
        /\ local_stacks # <<>>
        /\ Len(Last(local_stacks)) >= Fetched.arg)
       => LET s == Last(local_stacks)
              n == Fetched.arg
              made == Last(Last(local_stacks'))
          IN  /\ status' = "running"
              /\ Len(local_stacks') = Len(local_stacks)
              /\ Front(Last(local_stacks')) = SubSeq(s, 1, Len(s) - n)
              /\ BuildOf(made.k) = Fetched.op
              /\ made.v = SubSeq(s, Len(s) - n + 1, Len(s))

\* C20: a list, tuple or set literal of N elements compiles to the code of
\* its elements, left to right, and one build instruction carrying N;
\* that instruction pops exactly N values and pushes one container of the
\* literal's kind with the items in source order, the rest of the stack
\* as it was.
C20_Literals == [][LiteralBuilt({"List", "Tuple", "Set"})]_vars

-----------------------------------------------------------------------------
(***************************************************************************)
(* The pools of a CompileCtx.                                              *)
(***************************************************************************)
\* The entry an index issued by the j-th call refers to is the argument of
\* that call: same kind and same value, or same name.
SameEntry(j) ==
    LET r == issued[j]
    IN  IF r.pool = "consts"
        THEN r.i < Len(ctx.consts) /\ ctx.consts[r.i + 1] = ConstArgs[r.arg]
        ELSE r.i < Len(ctx.names) /\ ctx.names[r.i + 1] = NameArgs[r.arg]

\* C21: after any calls of add_const and add_name, every index returned
\* still refers to the constant (same kind, same value) or the name it was
\* returned for; add_const never gives a new constant the index of an
\* entry of another kind.
C21_PoolIndex == \A j \in 1..Len(issued) : SameEntry(j)

-----------------------------------------------------------------------------
(***************************************************************************)
(* Function definitions.                                                   *)
(***************************************************************************)
\* The definitions among the statements of the program, with the index in
\* the queue where the code of each starts.
IsDef(i) == input.kind = "file" /\ IsKeyword(input.parsed[i], {"Def"})

Holding(op) == {i \in 0..(Len(instruction_queue) - 1) : At(i).op = op}

\* C23: the stream compiled from a program that defines a function holds
\* a MakeFunction, the function's ReturnValue and a JumpForward; the
\* JumpForward comes directly after MakeFunction and jumps over exactly
\* the body inlined behind it, whose last instruction is the ReturnValue.
C23_DefInline ==
    (/\ status = "running"
     /\ input.kind = "file"
     /\ \E i \in 1..Len(input.parsed) : IsDef(i))
    => /\ Holding("MakeFunction") # {}
       /\ Holding("ReturnValue") # {}
       /\ \A i \in Holding("MakeFunction") :
             /\ InQueue(i + 1)
             /\ At(i + 1).op = "JumpForward"
             /\ InQueue(i + 1 + At(i + 1).arg)
             /\ At(i + 1 + At(i + 1).arg).op = "ReturnValue"


\* The values on the operand stacks that are iterators.
Iterators ==
    {it \in UNION {{st[j] : j \in 1..Len(st)} :
                      st \in {local_stacks[f] : f \in 1..Len(local_stacks)}} :
        it.k = "Iter"}

IsPrefix(s, t) == Len(s) <= Len(t) /\ s = SubSeq(t, 1, Len(s))

Pushed(queue) == [i \in 1..Len(queue) |-> IF queue[i].op = "PushNull" THEN NullObj
                                           ELSE queue[i].arg]

\* C26: CallInstrinsic1 takes every value above the most recent Null
\* sentinel, in the order they were pushed, removes them and the sentinel,
\* and pushes the result only when there is one: behind PushNull, k pushes
\* and CallInstrinsic1(Print) the stack is as it was before PushNull, and
\* print was given the k values.
C26_PrintCall ==
    \A below \in 1..Len(Below), k \in 0..MaxVals :
        \A vals \in [1..k -> 1..Len(PrintVals)] :
            input = PrintQueue(below, vals) =>
                /\ status \notin {"panic", "hang"}
                /\ status = "halted" =>
                      /\ local_stacks = <<Pushed(Below[below])>>
                      /\ stdout = <<[i \in 1..k |-> PrintVals[vals[i]]]>>

C26_Witness ==
    /\ input = PrintQueue(3, <<1, 2>>)
    /\ status = "halted"
    /\ stdout = <<<<IntObj(1), NoneObj>>>>
    /\ local_stacks = <<<<NullObj, StrObj(<<"b">>)>>>>

\* C27: compiling a construct the compiler does not support, the Dot of
\* two atoms among them, appends an Error instruction and goes on with the
\* statements that follow: the compilation is never aborted.
C27_ErrorInstruction ==
    \A u \in Unsupported :
        (input = UnsupportedProgram(u) /\ status # "new") =>
            LET n == Len(instruction_queue)
            IN  /\ n >= 4
                /\ \E i \in 1..(n - 3) : instruction_queue[i].op = "Error"
                /\ SubSeq(instruction_queue, n - 2, n)
                      = <<PushNull, LoadConst(IntObj(1)), CallInstrinsic1("Print")>>

\* The integers start, start + step, ... below end.
Counting(start, end, step) ==
    LET count == IF end > start THEN (end - start + step - 1) \div step ELSE 0
    IN  [i \in 1..count |-> IntObj(start + (i - 1) * step)]

\* The forms of range that are claimed to return the list.
RangeForms(forms) ==
    \A argc \in forms, start \in 0..1, end \in 0..MaxIter, step \in 1..2 :
        input = RangeProgram(argc, start, end, step) =>
            /\ status \notin {"panic", "hang"}
            /\ status = "halted" =>
                  /\ var_maps[1]["r"].k = "List"
                  /\ var_maps[1]["r"].v = Counting(start, end, step)

\* C28: range takes one, two or three Int arguments, range(n),
\* range(start, end) and range(start, end, step), and returns in each form
\* the List of Int start, start + step, ... up to but excluding end, start
\* being 0 and step 1 where they are left out.
C28_RangeForms == RangeForms(1..3)

\* The code of the body of every elif and else arm of the chains among the
\* statements given is in the queue as the body compiles by itself.
ArmBodiesKept(indices) ==
    \A i \in indices :
        IsChain(input.parsed[i]) =>
            LET e == input.parsed[i]
                b == OffsetOf(i)
                arms == ArmParts(e)
            IN  \A k \in 1..Len(arms) :
                    LET from == ArmStart(e, b, k)
                                   + (IF IsElifArm(arms[k])
                                      THEN CodeLen(arms[k].conds) + 1 ELSE 0)
                        body == CompileAll(arms[k].body, <<>>)
                    IN  SubSeq(instruction_queue, from + 1, from + Len(body)) = body

\* C29: the final pass over an if/elif/else chain rewrites only the forward
\* jump at the end of each elif arm of that chain; every other instruction
\* of the arm bodies, a JumpForward(0) of a nested chain inside a while
\* loop in an elif body among them, keeps the operand it was compiled with.
C29_PatchPass == Compiled => ArmBodiesKept(1..Len(input.parsed))

\* C30: when the body of an if holds a nested if, the compiled code holds
\* the nested if's own body under the nested condition, and the statements
\* behind the nested if in the outer body run whether or not the nested
\* condition holds, in the order of the source: `if c1: / (if c2: print(1))
\* / print(2)` prints 1 when c1 and c2, then 2 when c1.
C30_NestedIf ==
    \A c1, c2 \in BOOLEAN :
        (input = NestedIfProgram(FALSE, TRUE, c1, c2) /\ status # "new") =>
            /\ status \notin {"panic", "hang"}
            /\ \E i \in 1..Len(instruction_queue) :
                   instruction_queue[i] = LoadConst(IntObj(1))
            /\ status = "halted" =>
                  stdout = (IF c1 /\ c2 THEN <<<<IntObj(1)>>>> ELSE <<>>)
                               \o (IF c1 THEN <<<<IntObj(2)>>>> ELSE <<>>)

\* ForIter is about to be dispatched on the iterator of the loop over the
\* items given, with nothing else on the stack of the program.
AtLoopIterator(items) ==
    Ready("ForIter") =>
        /\ local_stacks # <<>>
        /\ Len(Last(local_stacks)) = 1
        /\ Last(local_stacks)[1].k = "Iter"
        /\ Last(local_stacks)[1].v.items = items

\* The loops over l = [1, ..., len] with the bodies given.
ForIterSeesIterator(bodies) ==
    \A len \in 0..MaxIter, body \in bodies :
        input = ForBodyProgram(len, body) =>
            /\ AtLoopIterator([j \in 1..len |-> IntObj(j)])
            /\ status \notin {"panic", "hang"}

\* C31: in the code of a for loop, whenever ForIter is dispatched the top
\* of the operand stack is the iterator of that loop, whatever body the
\* compiler accepts, a body with an expression statement or a while loop
\* included, and the stack is as deep at ForIter in every round.
C31_ForIterStack == ForIterSeesIterator({"print", "assign", "expr", "while"})

\* C32: every call of PyVM::execute dispatches the queue it is given from
\* index 0 on, also on a machine that has run an earlier queue to its end.
C32_ExecuteFromZero ==
    [][(status # "running" /\ status' = "running") => instruction_counter' = 0]_vars

\* C33: every instruction PyBytecode::from_expr can emit has a handler in
\* PyVM::execute_instruction: a run of compiled code never comes to
\* dispatch an instruction that falls to the `not implemented` abort, not
\* for a set literal (BuildSet) and not for a member access (LoadDeref).
C33_AllHandled ==
    (input.kind \in {"file", "line"} /\ status = "running"
         /\ InQueue(instruction_counter))
        => Fetched.op \notin NotImplemented

\* C34: adding a List to itself, both operands being the one shared list,
\* completes with a new list holding the items of the list twice: taking
\* the locks of the two operands neither blocks forever nor panics.
\* `x = [1, 2] / y = [3, 4] / z = a + a` for a among x and y.
C34_SelfAdd ==
    \A a \in {"x", "y"} :
        input = ListAddProgram(a, a) =>
            /\ status \notin {"panic", "hang"}
            /\ status = "halted" =>
                  /\ var_maps[1]["z"].k = "List"
                  /\ var_maps[1]["z"].v = var_maps[1][a].v \o var_maps[1][a].v
                  /\ var_maps[1]["z"].id # var_maps[1][a].id

\* C35: RangeObj::to_vec comes to an end for every start, end and step
\* that are Int: also for step 0, for a negative step with start < end and
\* for a positive step with start > end.
C35_RangeTerminates ==
    \A start \in 0..1, end \in 0..MaxIter, step \in -1..2 :
        input = RangeProgram(3, start, end, step) => status # "hang"

\* C36: LoadFast(i) does not change local slot i: after StoreFast(i) of a
\* value v every later LoadFast(i) pushes v until the next StoreFast(i), so
\* two LoadFast(i) in a row push the same value.
C36_LoadFastKeeps ==
    \A i \in FastSlots \ {CacheLen}, v \in 1..2, loads \in 0..MaxVals :
        input = FastQueue(i, v, loads) =>
            /\ status \notin {"panic", "hang"}
            /\ trace # <<>> /\ Last(trace) >= 1 => cache_vec[i] = IntObj(v)
            /\ status = "halted" => local_stacks = <<Repeat(IntObj(v), loads)>>

\* What the evaluator gives agrees with how the run of the compiled
\* expression has ended: the value on top of the stack, or an error on
\* both sides (the machine has thrown, or holds the exception as a value).
SameAsEval(r) ==
    /\ r.r # "panic"
    /\ status = "halted" =>
          /\ HasTop
          /\ IF Top.k = "Except" THEN r.r = "err" ELSE r.r = "ok" /\ r.v = Top
    /\ (status = "panic" /\ executed = 1) => r.r = "err"
    /\ status = "evaluated" => stdout = <<<<r.v>>>>

\* The expressions of the shapes given.
EvalAgrees(shapes) ==
    (input.kind = "expr" /\ status # "new" /\ input.parsed[1].t = "Operation"
         /\ (input.parsed[1].op = "Neg" => "neg" \in shapes)
         /\ (input.parsed[1].args[1].t = "Operation"
                 /\ input.parsed[1].args[1].op = "Neg" => "negsum" \in shapes))
        => SameAsEval(eval(input.parsed[1], <<>>))

\* C37: for every expression of numeric literals with binary + - * /, the
\* six comparisons and unary minus, Expression::eval and the compiled code
\* run on the machine give the same value, or both give an error.
C37_EvalAgrees == EvalAgrees({"binary", "nested", "neg", "negsum"})

\* C38: a quoted string literal is lowered to LoadConst of a Str that holds
\* exactly the characters of the literal, whatever they are.
C38_QuotedIsStr ==
    \A t \in 1..Len(QuotedTexts) :
        (input = QuotedLine(QuotedTexts[t]) /\ status \in {"running", "halted"})
            => /\ instruction_queue # <<>>
               /\ instruction_queue[1] = LoadConst(StrObj(QuotedTexts[t]))

\* v == v is True and v != v is False for the values of the kinds given.
Reflexive(kinds) ==
    \A c \in 1..Len(Bindable) :
        (input = ReflexiveProgram(c) /\ status = "halted"
             /\ var_maps[1]["v"].k \in kinds)
            => /\ var_maps[1]["r"] = BoolObj(TRUE)
               /\ var_maps[1]["q"] = BoolObj(FALSE)

\* C39: equality is reflexive on every value a program can bind to a
\* name, a List, a Tuple and a Set included: v == v is True and v != v is
\* False.
C39_EqReflexive ==
    Reflexive({"Int", "Float", "Str", "Bool", "None", "List", "Tuple", "Set"})

=============================================================================
